---- MODULE Spec2Model ----
(***************************************************************************)
(* A model of the blob storage API: the request pipeline of server.js      *)
(* (authMiddleware, then the router of routes/blob.js), the route handlers *)
(* and the helper functions they use, over a block-blob object store.      *)
(*                                                                         *)
(* Strings are sequences of one-character strings; ".keep" and the route   *)
(* words ("exists", "folders", ...) are single indivisible symbols.        *)
(***************************************************************************)
EXTENDS Integers, Sequences, FiniteSets, TLC

VARIABLES
  blobs,    \* committed objects of the container: key -> sequence of blocks
  staged,   \* uncommitted blocks of the container: key -> (block id -> bytes)
  now,      \* Math.floor(Date.now() / 1000)
  ticks,    \* number of clock advances so far (bounds the clock)
  issued,   \* download tokens handed out so far
  wiring,   \* which revision of the server wiring runs (body parsers)
  pending,  \* per key, the chunks received since the key was last committed or overwritten
  everStaged, \* per key, the chunk indices staged at some time
  last,     \* the request handled by the last step and how it was answered
  call,     \* the last helper-function application (pure-function checks)
  inflight  \* the requests whose body is arriving: each one's own closure

vars == <<blobs, staged, now, ticks, issued, wiring, pending, everStaged, last, call, inflight>>

---------------------------------------------------------------------------
(* Bounds of the model *)

MaxChunks == 3
MaxTicks == 2

---------------------------------------------------------------------------
(* Program constants *)

DOWNLOAD_TOKEN_TTL_SECONDS == 300
ChunkIdWidth == 6

DOWNLOAD_TOKEN_SECRET == "download-token-secret"

---------------------------------------------------------------------------
(* String primitives of the JavaScript runtime *)

Digits == <<"0", "1", "2", "3", "4", "5", "6", "7", "8", "9">>

IsDigit(c) == \E d \in 1..10 : Digits[d] = c

DigitVal(c) == (CHOOSE d \in 1..10 : Digits[d] = c) - 1

RECURSIVE ToDecimal(_)
\* String(n) for an integer n
ToDecimal(n) ==
  IF n < 0 THEN <<"-">> \o ToDecimal(-n)
  ELSE IF n < 10 THEN <<Digits[n + 1]>>
  ELSE ToDecimal(n \div 10) \o <<Digits[(n % 10) + 1]>>

\* s.padStart(width, fill)
PadStart(s, width, fill) ==
  IF Len(s) >= width THEN s
  ELSE [i \in 1..(width - Len(s)) |-> fill] \o s

RECURSIVE DigitPrefixValue(_, _)
\* the value of the longest run of digits at the head of s, continuing acc
DigitPrefixValue(s, acc) ==
  IF s = <<>> \/ ~IsDigit(Head(s)) THEN acc
  ELSE DigitPrefixValue(Tail(s), 10 * acc + DigitVal(Head(s)))

RECURSIVE SkipSpaces(_)
SkipSpaces(s) == IF s # <<>> /\ Head(s) = " " THEN SkipSpaces(Tail(s)) ELSE s

\* parseInt(s, 10): [nan |-> TRUE] when no digit follows the optional sign
ParseInt(s) ==
  LET t == SkipSpaces(s)
      neg == t # <<>> /\ Head(t) = "-"
      u == IF t # <<>> /\ Head(t) \in {"-", "+"} THEN Tail(t) ELSE t
  IN IF u = <<>> \/ ~IsDigit(Head(u)) THEN [nan |-> TRUE, n |-> 0]
     ELSE [nan |-> FALSE,
           n |-> IF neg THEN 0 - DigitPrefixValue(u, 0) ELSE DigitPrefixValue(u, 0)]

RECURSIVE Split(_, _)
\* s.split(sep): the fields of s between separators
Split(s, sep) ==
  IF \A i \in 1..Len(s) : s[i] # sep THEN <<s>>
  ELSE LET k == CHOOSE i \in 1..Len(s) : s[i] = sep /\ \A j \in 1..(i - 1) : s[j] # sep
       IN <<SubSeq(s, 1, k - 1)>> \o Split(SubSeq(s, k + 1, Len(s)), sep)

\* s.startsWith(p), s.endsWith(p)
StartsWith(s, p) == Len(p) <= Len(s) /\ SubSeq(s, 1, Len(p)) = p
EndsWith(s, p) == Len(p) <= Len(s) /\ SubSeq(s, Len(s) - Len(p) + 1, Len(s)) = p

\* s.lastIndexOf(c), s.indexOf(c): 1-based here, 0 when c does not occur
LastIndexOf(s, c) ==
  IF \A i \in 1..Len(s) : s[i] # c THEN 0
  ELSE CHOOSE i \in 1..Len(s) : s[i] = c /\ \A j \in (i + 1)..Len(s) : s[j] # c
IndexOf(s, c) ==
  IF \A i \in 1..Len(s) : s[i] # c THEN 0
  ELSE CHOOSE i \in 1..Len(s) : s[i] = c /\ \A j \in 1..(i - 1) : s[j] # c

\* a JavaScript value used as a condition: undefined and "" are both falsy
Falsy(s) == s = <<>>

---------------------------------------------------------------------------
(* Helpers of routes/blob.js *)

checkPermissionNoInherit(roles, requiredRole) ==
  IF requiredRole = "admin" THEN roles.isAdmin
  ELSE IF requiredRole = "uploader" THEN roles.isUploader
  ELSE IF requiredRole = "reader" THEN roles.isReader
  ELSE FALSE

checkPermission(roles, requiredRole) ==
  IF requiredRole = "admin" THEN roles.isAdmin
  ELSE IF requiredRole = "uploader" THEN roles.isAdmin \/ roles.isUploader
  ELSE IF requiredRole = "reader" THEN roles.isAdmin \/ roles.isUploader \/ roles.isReader
  ELSE FALSE

RECURSIVE StripLeadingSlashes(_)
StripLeadingSlashes(s) ==
  IF s # <<>> /\ Head(s) = "/" THEN StripLeadingSlashes(Tail(s)) ELSE s

RECURSIVE StripTrailingSlashes(_)
StripTrailingSlashes(s) ==
  IF s # <<>> /\ s[Len(s)] = "/" THEN StripTrailingSlashes(SubSeq(s, 1, Len(s) - 1)) ELSE s

normalizePathLeadingOnly(path) == StripLeadingSlashes(path)

\* path.replace(/^\/+|\/+$/g, '')
normalizePath(path) == StripTrailingSlashes(StripLeadingSlashes(path))

getFolderPath(path) ==
  LET normalized == normalizePath(path)
      lastSlash == LastIndexOf(normalized, "/")
  IN IF lastSlash = 0 THEN <<>> ELSE SubSeq(normalized, 1, lastSlash - 1)

getBaseName(path) ==
  LET normalized == normalizePath(path)
      lastSlash == LastIndexOf(normalized, "/")
  IN IF lastSlash = 0 THEN normalized ELSE SubSeq(normalized, lastSlash + 1, Len(normalized))

---------------------------------------------------------------------------
(* Download tokens *)

\* crypto.createHmac('sha256', secret).update(payload).digest('hex'): a keyed
\* digest, injective in (secret, payload), whose text never holds a "|"
HmacHex(secret, payload) ==
  <<"hmac(", secret, ":">> \o [i \in 1..Len(payload) |->
      IF payload[i] = "|" THEN "%7C" ELSE payload[i]] \o <<")">>

\* Buffer.from(text).toString('base64url') and its inverse
Base64UrlEncode(text) == [b64 |-> text]
Base64UrlDecode(token) == token.b64

NoToken == Base64UrlEncode(<<>>)

createDownloadToken(path, clock) ==
  LET exp == clock + DOWNLOAD_TOKEN_TTL_SECONDS
      payload == path \o <<"|">> \o ToDecimal(exp)
      sig == HmacHex(DOWNLOAD_TOKEN_SECRET, payload)
  IN Base64UrlEncode(payload \o <<"|">> \o sig)

Invalid == [ok |-> FALSE, path |-> <<>>]

verifyDownloadTokenUnsigned(token, clock) ==
  LET parts == Split(Base64UrlDecode(token), "|")
      path == IF Len(parts) >= 1 THEN parts[1] ELSE <<>>
      expStr == IF Len(parts) >= 2 THEN parts[2] ELSE <<>>
      sig == IF Len(parts) >= 3 THEN parts[3] ELSE <<>>
      exp == ParseInt(expStr)
  IN IF Falsy(path) \/ Falsy(expStr) \/ Falsy(sig) THEN Invalid
     ELSE IF exp.nan \/ exp.n < clock THEN Invalid
     ELSE [ok |-> TRUE, path |-> path]

verifyDownloadToken(token, clock) ==
  LET decoded == Base64UrlDecode(token)
      parts == Split(decoded, "|")
      path == IF Len(parts) >= 1 THEN parts[1] ELSE <<>>
      expStr == IF Len(parts) >= 2 THEN parts[2] ELSE <<>>
      sig == IF Len(parts) >= 3 THEN parts[3] ELSE <<>>
      payload == path \o <<"|">> \o expStr
      expected == HmacHex(DOWNLOAD_TOKEN_SECRET, payload)
      exp == ParseInt(expStr)
  IN IF Falsy(path) \/ Falsy(expStr) \/ Falsy(sig) THEN Invalid
     ELSE IF sig # expected THEN Invalid
     ELSE IF exp.nan \/ exp.n < clock THEN Invalid
     ELSE [ok |-> TRUE, path |-> path]

---------------------------------------------------------------------------
(* Chunk block identifiers *)

\* Buffer.from(text).toString('base64'): an injective encoding
Base64Encode(text) == [b64 |-> text]

NoId == Base64Encode(<<>>)

\* Buffer.from(`chunk-${String(index).padStart(6, '0')}`).toString('base64')
blockId(indexText) ==
  Base64Encode(<<"chunk-">> \o PadStart(indexText, ChunkIdWidth, "0"))

commitBlockIdsOffByOne(totalChunks) ==
  [i \in 1..(IF totalChunks > 1 THEN totalChunks - 1 ELSE 0) |->
      blockId(ToDecimal(i - 1))]

commitBlockIdsReversed(totalChunks) ==
  [i \in 1..(IF totalChunks > 0 THEN totalChunks ELSE 0) |->
      blockId(ToDecimal(totalChunks - i))]

\* the loop of the commit handler: ids of 0 .. totalChunks-1, in order
commitBlockIds(totalChunks) ==
  [i \in 1..(IF totalChunks > 0 THEN totalChunks ELSE 0) |->
      blockId(ToDecimal(i - 1))]

---------------------------------------------------------------------------
(* The object store: a container of block blobs.  A committed blob is the  *)
(* sequence of its committed blocks; a blob written in one piece is one    *)
(* block without an id.  Uncommitted blocks are kept per key until a       *)
(* commit or an overwrite of that key.                                     *)

RECURSIVE Content(_)
\* the bytes of a committed blob
Content(blocks) ==
  IF blocks = <<>> THEN <<>> ELSE Head(blocks).data \o Content(Tail(blocks))

EmptyMap == [k \in {} |-> <<>>]

Exists(B, key) == key \in DOMAIN B

StagedOf(S, key) == IF key \in DOMAIN S THEN S[key] ELSE EmptyMap

Without(f, key) == [k \in DOMAIN f \ {key} |-> f[k]]

With(f, key, value) == [k \in DOMAIN f \cup {key} |-> IF k = key THEN value ELSE f[k]]

CommittedIds(B, key) ==
  IF Exists(B, key) THEN {B[key][i].id : i \in 1..Len(B[key])} \ {NoId} ELSE {}

CommittedData(B, key, id) ==
  B[key][CHOOSE i \in 1..Len(B[key]) : B[key][i].id = id].data

storeStageBlockKeepFirst(B, S, key, id, data) ==
  [ok |-> TRUE, blobs |-> B,
   staged |-> IF id \in DOMAIN StagedOf(S, key) THEN S
              ELSE With(S, key, With(StagedOf(S, key), id, data))]

\* blockBlobClient.stageBlock(blockId, buffer, length)
storeStageBlock(B, S, key, id, data) ==
  [ok |-> TRUE, blobs |-> B, staged |-> With(S, key, With(StagedOf(S, key), id, data))]

\* blockBlobClient.commitBlockList(ids): each id is looked up among the
\* uncommitted blocks first, then among the committed ones; a missing id
\* fails the call and leaves the blob as it was
storeCommitBlockList(B, S, key, ids) ==
  LET u == StagedOf(S, key)
      known(id) == id \in DOMAIN u \/ id \in CommittedIds(B, key)
      dataOf(id) == IF id \in DOMAIN u THEN u[id] ELSE CommittedData(B, key, id)
  IN IF \A i \in 1..Len(ids) : known(ids[i])
     THEN [ok |-> TRUE,
           blobs |-> With(B, key, [i \in 1..Len(ids) |-> [id |-> ids[i], data |-> dataOf(ids[i])]]),
           staged |-> Without(S, key)]
     ELSE [ok |-> FALSE, blobs |-> B, staged |-> S]

\* blockBlobClient.upload(data) / uploadStream(stream): the blob is replaced
storePut(B, S, key, data) ==
  [ok |-> TRUE,
   blobs |-> With(B, key, IF data = <<>> THEN <<>> ELSE <<[id |-> NoId, data |-> data]>>),
   staged |-> Without(S, key)]

\* blobClient.delete(): fails when the blob does not exist
storeDelete(B, S, key) ==
  IF Exists(B, key) THEN [ok |-> TRUE, blobs |-> Without(B, key), staged |-> S]
  ELSE [ok |-> FALSE, blobs |-> B, staged |-> S]

\* destClient.beginCopyFromURL(sourceClient.url) and pollUntilDone()
storeCopy(B, S, src, dst) ==
  IF Exists(B, src) THEN [ok |-> TRUE, blobs |-> With(B, dst, B[src]), staged |-> S]
  ELSE [ok |-> FALSE, blobs |-> B, staged |-> S]

---------------------------------------------------------------------------
(* Requests *)

\* a JSON value of a request body: absent, a number or a string
JNone == [t |-> "none", n |-> 0, s |-> <<>>]
JNum(n) == [t |-> "num", n |-> n, s |-> <<>>]
JStr(s) == [t |-> "str", n |-> 0, s |-> s]

JFalsy(v) == v.t = "none" \/ (v.t = "num" /\ v.n = 0) \/ (v.t = "str" /\ v.s = <<>>)

\* parseInt(v): the number of iterations of a loop `i < parseInt(v)` is its
\* value when that is positive, and none when it is NaN, zero or negative
JParseInt(v) ==
  IF v.t = "num" THEN ParseInt(ToDecimal(v.n))
  ELSE IF v.t = "str" THEN ParseInt(v.s)
  ELSE [nan |-> TRUE, n |-> 0]

NoAuthHeader ==
  [scheme |-> "none", decodes |-> FALSE, authentic |-> FALSE,
   aud |-> "none", iss |-> "none", groups |-> {}]

\* a bearer token of the identity provider carrying the given group claims
Bearer(groups) ==
  [scheme |-> "Bearer", decodes |-> TRUE, authentic |-> TRUE,
   aud |-> "api", iss |-> "v2", groups |-> groups]

EmptyQuery ==
  [folder |-> <<>>, filename |-> <<>>, hasChunkIndex |-> FALSE, chunkIndex |-> <<>>,
   totalChunks |-> <<>>, dt |-> NoToken]

EmptyBody ==
  [path |-> <<>>, filename |-> <<>>, totalChunks |-> JNone, folder |-> <<>>,
   folderPath |-> <<>>, sourcePath |-> <<>>, destinationPath |-> <<>>,
   oldPath |-> <<>>, newName |-> <<>>]

\* files: the file parts of a multipart body, each [filename, data]
Request(method, path, auth) ==
  [method |-> method, path |-> path, auth |-> auth,
   query |-> EmptyQuery, body |-> EmptyBody, files |-> <<>>]

NoRequest == Request("none", <<>>, NoAuthHeader)

FilePart(filename, data) == [filename |-> filename, data |-> data]

---------------------------------------------------------------------------
(* middleware/auth.js *)

NoRoles == [isReader |-> FALSE, isUploader |-> FALSE, isAdmin |-> FALSE]

\* status 0: next() was called and req.user.roles is set
authMiddleware(req) ==
  LET h == req.auth IN
  IF h.scheme # "Bearer" THEN [status |-> 401, roles |-> NoRoles]
  ELSE IF ~h.decodes THEN [status |-> 401, roles |-> NoRoles]
  ELSE IF h.aud # "api" THEN [status |-> 403, roles |-> NoRoles]
  ELSE IF h.iss \notin {"v2", "sts"} THEN [status |-> 403, roles |-> NoRoles]
  ELSE [status |-> 0,
        roles |-> [isReader |-> "readers" \in h.groups,
                   isUploader |-> "uploaders" \in h.groups,
                   isAdmin |-> "admins" \in h.groups]]

---------------------------------------------------------------------------
(* The router of routes/blob.js: routes in registration order, first match *)
(* wins.  A pattern route (a regular expression ^<pattern>(.+)$) captures  *)
(* the rest of the path as req.params[0].                                  *)

Routes == <<
  [method |-> "GET",    exact |-> TRUE,  pattern |-> <<"/">>, name |-> "list"],
  [method |-> "GET",    exact |-> FALSE, pattern |-> <<"/", "exists", "/">>, name |-> "exists"],
  [method |-> "POST",   exact |-> TRUE,  pattern |-> <<"/", "download-token">>, name |-> "download-token"],
  [method |-> "POST",   exact |-> TRUE,  pattern |-> <<"/", "chunked", "/", "commit">>, name |-> "chunked/commit"],
  [method |-> "POST",   exact |-> TRUE,  pattern |-> <<"/", "chunked">>, name |-> "chunked"],
  [method |-> "POST",   exact |-> TRUE,  pattern |-> <<"/", "folders", "/", "create">>, name |-> "folders/create"],
  [method |-> "POST",   exact |-> TRUE,  pattern |-> <<"/", "move">>, name |-> "move"],
  [method |-> "POST",   exact |-> TRUE,  pattern |-> <<"/", "rename">>, name |-> "rename"],
  [method |-> "POST",   exact |-> TRUE,  pattern |-> <<"/">>, name |-> "upload"],
  [method |-> "GET",    exact |-> FALSE, pattern |-> <<"/">>, name |-> "download"],
  [method |-> "DELETE", exact |-> FALSE, pattern |-> <<"/">>, name |-> "delete"],
  [method |-> "DELETE", exact |-> FALSE, pattern |-> <<"/", "folders", "/">>, name |-> "folders/delete"] >>

Matches(route, req) ==
  /\ route.method = req.method
  /\ IF route.exact THEN req.path = route.pattern
     ELSE StartsWith(req.path, route.pattern) /\ Len(req.path) > Len(route.pattern)

RECURSIVE FirstMatchFrom(_, _)
\* the first route from the i-th on that matches req, 0 when none does
FirstMatchFrom(req, i) ==
  IF i > Len(Routes) THEN 0
  ELSE IF Matches(Routes[i], req) THEN i
  ELSE FirstMatchFrom(req, i + 1)

FirstMatch(req) == FirstMatchFrom(req, 1)

\* the name of the handler the router runs for req; "none" when no route matches
Dispatch(req) ==
  LET i == FirstMatch(req) IN IF i = 0 THEN "none" ELSE Routes[i].name

\* req.params[0] of the route that handles req
Param(req) ==
  LET r == Routes[FirstMatch(req)]
  IN SubSeq(req.path, Len(r.pattern) + 1, Len(req.path))

\* req.body as the handler sees it: server.js installs a JSON body parser for
\* /chunked/commit only, the routes download-token, chunked/commit and
\* folders/create install their own, and the later server revision installs
\* one for every route
BodyParsed(route) ==
  \/ wiring = "global-json"
  \/ route \in {"download-token", "chunked/commit", "folders/create"}

---------------------------------------------------------------------------
(* buildHierarchy and the listing of the container *)

Alphabet == <<" ", "+", "-", ".keep", "/", "0", "1", "2", "3", "4", "5", "6", "7",
              "8", "9", "a", "b", "chunked", "d", "download-token", "exists", "f",
              "folders", "move", "rename", "upload_", "x", "|">>

Rank(c) == CHOOSE i \in 1..Len(Alphabet) : Alphabet[i] = c

RECURSIVE LexLeq(_, _)
LexLeq(a, b) ==
  IF a = <<>> THEN TRUE
  ELSE IF b = <<>> THEN FALSE
  ELSE IF Head(a) = Head(b) THEN LexLeq(Tail(a), Tail(b))
  ELSE Rank(Head(a)) < Rank(Head(b))

RECURSIVE SortKeys(_)
SortKeys(keys) ==
  IF keys = {} THEN <<>>
  ELSE LET m == CHOOSE x \in keys : \A y \in keys : LexLeq(x, y)
       IN <<m>> \o SortKeys(keys \ {m})

\* containerClient.listBlobsFlat({ prefix }): the committed blobs, by name
listBlobsFlat(B, prefix) ==
  LET names == SortKeys({k \in DOMAIN B : StartsWith(k, prefix)})
  IN [i \in 1..Len(names) |-> [name |-> names[i], size |-> Len(Content(B[names[i]]))]]

EmptyListing == [folders |-> <<>>, files |-> <<>>]

FolderIndex(folders, name) ==
  IF \A i \in 1..Len(folders) : folders[i].name # name THEN 0
  ELSE CHOOSE i \in 1..Len(folders) : folders[i].name = name

RECURSIVE buildFrom(_, _, _)
\* the loop of buildHierarchy over the rest of the blobs, given what is built
buildFrom(rest, folderPath, acc) ==
  IF rest = <<>> THEN acc
  ELSE
    LET blob == Head(rest)
        normalized == normalizePath(blob.name)
        relativePath == IF folderPath # <<>>
                        THEN SubSeq(normalized, Len(folderPath) + 2, Len(normalized))
                        ELSE normalized
        subfolderName == SubSeq(relativePath, 1, IndexOf(relativePath, "/") - 1)
        at == FolderIndex(acc.folders, subfolderName)
        next ==
          IF EndsWith(normalized, <<"/", ".keep">>) \/ normalized = <<".keep">> THEN acc
          ELSE IF folderPath # <<>> /\ ~StartsWith(normalized, folderPath \o <<"/">>) THEN acc
          ELSE IF IndexOf(relativePath, "/") # 0 THEN
            IF at = 0
            THEN [acc EXCEPT !.folders = Append(@,
                    [name |-> subfolderName,
                     path |-> IF folderPath # <<>> THEN folderPath \o <<"/">> \o subfolderName
                              ELSE subfolderName,
                     children |-> 1])]
            ELSE [acc EXCEPT !.folders[at].children = @ + 1]
          ELSE [acc EXCEPT !.files = Append(@,
                    [name |-> relativePath, fullPath |-> normalized, size |-> blob.size])]
    IN buildFrom(Tail(rest), folderPath, next)

buildHierarchy(blobList, folderPath) == buildFrom(blobList, folderPath, EmptyListing)

---------------------------------------------------------------------------
(* Route handlers.  A handler yields the response and the store it leaves: *)
(* status 0 stands for a request that is never answered; calls lists the   *)
(* store operations issued, in order.                                      *)

Answer(status) ==
  [status |-> status, blobs |-> blobs, staged |-> staged, pending |-> pending,
   everStaged |-> everStaged, issued |-> issued, calls |-> <<>>, token |-> NoToken, content |-> <<>>,
   exists |-> FALSE, listing |-> EmptyListing]

StoreCall(op, key) == [op |-> op, key |-> key]

\* targetFolder ? targetFolder + '/' + filename : filename
JoinPath(targetFolder, filename) ==
  IF targetFolder # <<>> THEN targetFolder \o <<"/">> \o filename ELSE filename

TargetFolder(folder) == IF folder # <<>> THEN normalizePath(folder) ELSE <<>>

\* router.get('/')
listFiles(req, roles) ==
  IF ~checkPermission(roles, "reader") THEN Answer(403)
  ELSE [Answer(200) EXCEPT
          !.calls = <<StoreCall("listBlobsFlat", <<>>)>>,
          !.listing = buildHierarchy(listBlobsFlat(blobs, <<>>), TargetFolder(req.query.folder))]

\* router.get(/^\/exists\/(.+)$/i)
checkExists(req, roles) ==
  IF ~checkPermission(roles, "reader") THEN Answer(403)
  ELSE LET blobPath == normalizePath(Param(req))
       IN [Answer(200) EXCEPT !.calls = <<StoreCall("exists", blobPath)>>,
                              !.exists = Exists(blobs, blobPath)]

\* router.post('/download-token')
issueDownloadToken(req, roles) ==
  IF ~checkPermission(roles, "reader") THEN Answer(403)
  ELSE IF Falsy(req.body.path) THEN Answer(400)
  ELSE LET token == createDownloadToken(normalizePath(req.body.path), now)
       IN [Answer(200) EXCEPT
             !.token = token,
             !.issued = issued \cup {[token |-> token, path |-> normalizePath(req.body.path),
                                      at |-> now]}]

\* the integer a chunkIndex text denotes, -1 when it is not a string of digits
IndexOfText(text) ==
  IF text # <<>> /\ \A i \in 1..Len(text) : IsDigit(text[i]) THEN ParseInt(text).n ELSE 0 - 1

\* router.post('/chunked/commit')
commitChunks(req, roles) ==
  IF ~checkPermission(roles, "uploader") THEN Answer(403)
  ELSE IF Falsy(req.body.filename) \/ JFalsy(req.body.totalChunks) THEN Answer(400)
  ELSE
    LET fullPath == JoinPath(TargetFolder(req.body.folder), req.body.filename)
        n == JParseInt(req.body.totalChunks)
        blockList == commitBlockIds(IF n.nan THEN 0 ELSE n.n)
        done == storeCommitBlockList(blobs, staged, fullPath, blockList)
    IN IF done.ok
       THEN [Answer(200) EXCEPT !.blobs = done.blobs, !.staged = done.staged,
                                !.pending = Without(pending, fullPath),
                                !.calls = <<StoreCall("commitBlockList", fullPath)>>]
       ELSE [Answer(500) EXCEPT !.calls = <<StoreCall("commitBlockList", fullPath)>>]

IndicesOf(E, key) == IF key \in DOMAIN E THEN E[key] ELSE {}

stageOneByUpload(B, S, fullPath, chunkIndex, data) ==
  storePut(B, S, fullPath, data)

\* the 'end' handler of a file part: the block id of the index, then stageBlock
stageOne(B, S, fullPath, chunkIndex, data) ==
  storeStageBlock(B, S, fullPath, blockId(chunkIndex), data)

RECURSIVE stageParts(_, _, _, _)
\* the 'file' handler of the chunk route, for each file part of the body in turn
stageParts(parts, fullPath, chunkIndex, acc) ==
  IF parts = <<>> THEN acc
  ELSE
    LET done == stageOne(acc.blobs, acc.staged, fullPath, chunkIndex, Head(parts).data)
        i == IndexOfText(chunkIndex)
    IN stageParts(Tail(parts), fullPath, chunkIndex,
         [acc EXCEPT !.status = 200, !.blobs = done.blobs, !.staged = done.staged,
                     !.pending = IF i < 0 THEN @
                                 ELSE With(@, fullPath,
                                           With(StagedOf(@, fullPath), i, Head(parts).data)),
                     !.everStaged = IF i < 0 THEN @
                                    ELSE With(@, fullPath, IndicesOf(@, fullPath) \cup {i}),
                     !.calls = Append(@, StoreCall("stageBlock", fullPath))])

\* router.post('/chunked'): without a file part nothing answers the request
stageChunk(req, roles) ==
  IF ~checkPermission(roles, "uploader") THEN Answer(403)
  ELSE IF Falsy(req.query.filename) \/ ~req.query.hasChunkIndex \/ Falsy(req.query.totalChunks)
    THEN Answer(400)
  ELSE stageParts(req.files,
                  JoinPath(TargetFolder(req.query.folder), req.query.filename),
                  req.query.chunkIndex, Answer(0))

createFolderWithObject(req, roles) ==
  IF ~checkPermission(roles, "uploader") THEN Answer(403)
  ELSE IF Falsy(req.body.folderPath) THEN Answer(400)
  ELSE LET folder == normalizePath(req.body.folderPath)
           markerPath == folder \o <<"/", ".keep">>
           made == storePut(blobs, staged, folder, <<>>)
           done == storePut(made.blobs, made.staged, markerPath, <<>>)
       IN [Answer(200) EXCEPT !.blobs = done.blobs, !.staged = done.staged,
                              !.pending = Without(pending, markerPath),
                              !.calls = <<StoreCall("upload", folder),
                                          StoreCall("upload", markerPath)>>]

\* router.post('/folders/create')
createFolder(req, roles) ==
  IF ~checkPermission(roles, "uploader") THEN Answer(403)
  ELSE IF Falsy(req.body.folderPath) THEN Answer(400)
  ELSE LET markerPath == normalizePath(req.body.folderPath) \o <<"/", ".keep">>
           done == storePut(blobs, staged, markerPath, <<>>)
       IN [Answer(200) EXCEPT !.blobs = done.blobs, !.staged = done.staged,
                              !.pending = Without(pending, markerPath),
                              !.calls = <<StoreCall("upload", markerPath)>>]

copyThenDeleteSourceFirst(src, dst) ==
  LET deleted == storeDelete(blobs, staged, src)
      copied == storeCopy(deleted.blobs, deleted.staged, src, dst)
  IN IF ~deleted.ok
     THEN [Answer(500) EXCEPT !.calls = <<StoreCall("delete", src)>>]
     ELSE IF ~copied.ok
     THEN [Answer(500) EXCEPT !.blobs = deleted.blobs, !.staged = deleted.staged,
                              !.calls = <<StoreCall("delete", src),
                                          StoreCall("beginCopyFromURL", dst)>>]
     ELSE [Answer(200) EXCEPT !.blobs = copied.blobs, !.staged = copied.staged,
                              !.calls = <<StoreCall("delete", src),
                                          StoreCall("beginCopyFromURL", dst)>>]

\* server-side copy of src to dst, then delete of src; a failing step answers 500
copyThenDelete(src, dst) ==
  LET copied == storeCopy(blobs, staged, src, dst)
      deleted == storeDelete(copied.blobs, copied.staged, src)
  IN IF ~copied.ok
     THEN [Answer(500) EXCEPT !.calls = <<StoreCall("beginCopyFromURL", dst)>>]
     ELSE IF ~deleted.ok
     THEN [Answer(500) EXCEPT !.blobs = copied.blobs, !.staged = copied.staged,
                              !.calls = <<StoreCall("beginCopyFromURL", dst),
                                          StoreCall("delete", src)>>]
     ELSE [Answer(200) EXCEPT !.blobs = deleted.blobs, !.staged = deleted.staged,
                              !.calls = <<StoreCall("beginCopyFromURL", dst),
                                          StoreCall("delete", src)>>]

moveFileUnvalidated(req, roles) ==
  IF ~checkPermission(roles, "uploader") THEN Answer(403)
  ELSE IF ~BodyParsed("move") THEN Answer(500)
  ELSE copyThenDelete(normalizePath(req.body.sourcePath),
                      normalizePath(req.body.destinationPath))

\* router.post('/move'): destructuring an undefined req.body throws
moveFile(req, roles) ==
  IF ~checkPermission(roles, "uploader") THEN Answer(403)
  ELSE IF ~BodyParsed("move") THEN Answer(500)
  ELSE IF Falsy(req.body.sourcePath) \/ Falsy(req.body.destinationPath) THEN Answer(400)
  ELSE copyThenDelete(normalizePath(req.body.sourcePath),
                      normalizePath(req.body.destinationPath))

\* newPath of the rename route: folderPath ? folderPath + '/' + newName : newName
renamePath(oldPath, newName) ==
  LET oldNorm == normalizePath(oldPath)
      folderPath == getFolderPath(oldNorm)
  IN JoinPath(folderPath, newName)

\* router.post('/rename')
renameFile(req, roles) ==
  IF ~checkPermission(roles, "uploader") THEN Answer(403)
  ELSE IF ~BodyParsed("rename") THEN Answer(500)
  ELSE IF Falsy(req.body.oldPath) \/ Falsy(req.body.newName) THEN Answer(400)
  ELSE copyThenDelete(normalizePath(req.body.oldPath),
                      renamePath(req.body.oldPath, req.body.newName))

\* router.post('/'): Busboy is limited to one file part; the upload is
\* started and the request answered at once
uploadFile(req, roles) ==
  IF ~checkPermission(roles, "uploader") THEN Answer(403)
  ELSE IF req.files = <<>> THEN Answer(400)
  ELSE
    LET file == Head(req.files)
        safeFilename == IF file.filename # <<>> THEN file.filename
                        ELSE <<"upload_">> \o ToDecimal(now)
        fullPath == JoinPath(TargetFolder(req.query.folder), safeFilename)
        done == storePut(blobs, staged, fullPath, file.data)
    IN [Answer(200) EXCEPT !.blobs = done.blobs, !.staged = done.staged,
                           !.pending = Without(pending, fullPath),
                           !.calls = <<StoreCall("uploadStream", fullPath)>>]

downloadAuthorizedTokenOnly(req, roles, blobPath) ==
  \/ checkPermission(roles, "reader")
  \/ /\ req.query.dt # NoToken
     /\ verifyDownloadToken(req.query.dt, now).ok

\* the authorization of the download route: the reader role, or else a token
downloadAuthorized(req, roles, blobPath) ==
  \/ checkPermission(roles, "reader")
  \/ /\ req.query.dt # NoToken
     /\ verifyDownloadToken(req.query.dt, now).ok
     /\ verifyDownloadToken(req.query.dt, now).path = blobPath

downloadFileTellsMismatch(req, roles) ==
  LET blobPath == normalizePath(Param(req)) IN
  IF ~downloadAuthorized(req, roles, blobPath)
    THEN IF verifyDownloadToken(req.query.dt, now).ok THEN Answer(404) ELSE Answer(403)
  ELSE IF ~Exists(blobs, blobPath)
    THEN [Answer(500) EXCEPT !.calls = <<StoreCall("download", blobPath)>>]
  ELSE [Answer(200) EXCEPT !.calls = <<StoreCall("download", blobPath),
                                       StoreCall("getProperties", blobPath)>>,
                           !.content = Content(blobs[blobPath])]

\* router.get(/^\/(.+)$/i)
downloadFile(req, roles) ==
  LET blobPath == normalizePath(Param(req)) IN
  IF ~downloadAuthorized(req, roles, blobPath) THEN Answer(403)
  ELSE IF ~Exists(blobs, blobPath)
    THEN [Answer(500) EXCEPT !.calls = <<StoreCall("download", blobPath)>>]
  ELSE [Answer(200) EXCEPT !.calls = <<StoreCall("download", blobPath),
                                       StoreCall("getProperties", blobPath)>>,
                           !.content = Content(blobs[blobPath])]

deleteFileByLink(req, roles) ==
  IF ~(checkPermission(roles, "uploader") \/ downloadAuthorized(req, roles, Param(req)))
  THEN Answer(403)
  ELSE LET blobPath == Param(req)
           done == storeDelete(blobs, staged, blobPath)
       IN IF done.ok
          THEN [Answer(200) EXCEPT !.blobs = done.blobs, !.staged = done.staged,
                                   !.calls = <<StoreCall("delete", blobPath)>>]
          ELSE [Answer(500) EXCEPT !.calls = <<StoreCall("delete", blobPath)>>]

\* router.delete(/^\/(.+)$/i)
deleteFile(req, roles) ==
  IF ~checkPermission(roles, "uploader") THEN Answer(403)
  ELSE LET blobPath == Param(req)
           done == storeDelete(blobs, staged, blobPath)
       IN IF done.ok
          THEN [Answer(200) EXCEPT !.blobs = done.blobs, !.staged = done.staged,
                                   !.calls = <<StoreCall("delete", blobPath)>>]
          ELSE [Answer(500) EXCEPT !.calls = <<StoreCall("delete", blobPath)>>]

\* router.delete(/^\/folders\/(.+)$/i)
deleteFolder(req, roles) ==
  IF ~checkPermission(roles, "uploader") THEN Answer(403)
  ELSE
    LET folderPath == normalizePath(Param(req))
        prefix == folderPath \o <<"/">>
        markerPath == folderPath \o <<"/", ".keep">>
        found == listBlobsFlat(blobs, prefix)
        hasContents == \E i \in 1..Len(found) : found[i].name # markerPath
        done == storeDelete(blobs, staged, markerPath)
    IN IF Falsy(folderPath) THEN Answer(400)
       ELSE IF hasContents
         THEN [Answer(409) EXCEPT !.calls = <<StoreCall("listBlobsFlat", prefix)>>]
       ELSE IF done.ok
         THEN [Answer(200) EXCEPT !.blobs = done.blobs, !.staged = done.staged,
                                  !.calls = <<StoreCall("listBlobsFlat", prefix),
                                              StoreCall("delete", markerPath)>>]
       ELSE [Answer(500) EXCEPT !.calls = <<StoreCall("listBlobsFlat", prefix),
                                            StoreCall("delete", markerPath)>>]

---------------------------------------------------------------------------
(* The request pipeline of server.js: authMiddleware, then the router.     *)
(* One step serves one request.                                            *)

Roles(req) == authMiddleware(req).roles

\* what answers req: authMiddleware itself ("auth"), or the handler routed to
Target(req) == IF authMiddleware(req).status # 0 THEN "auth" ELSE Dispatch(req)

Routed(req, route) == Target(req) = route

Reply(req, route, out) ==
  /\ blobs' = out.blobs
  /\ staged' = out.staged
  /\ pending' = out.pending
  /\ everStaged' = out.everStaged
  /\ issued' = out.issued
  /\ last' = [req |-> req, route |-> route, status |-> out.status, calls |-> out.calls,
              token |-> out.token, content |-> out.content, exists |-> out.exists,
              listing |-> out.listing]
  /\ UNCHANGED <<now, ticks, wiring, call, inflight>>

\* authMiddleware answers 401 or 403 itself and the router is not reached
AuthReject(req) ==
  /\ Routed(req, "auth")
  /\ Reply(req, "auth", Answer(authMiddleware(req).status))

\* no route matches
NoRoute(req) == Routed(req, "none") /\ Reply(req, "none", Answer(404))

ListFiles(req) == Routed(req, "list") /\ Reply(req, "list", listFiles(req, Roles(req)))

CheckExists(req) == Routed(req, "exists") /\ Reply(req, "exists", checkExists(req, Roles(req)))

IssueDownloadToken(req) ==
  /\ Routed(req, "download-token")
  /\ Reply(req, "download-token", issueDownloadToken(req, Roles(req)))

CommitChunks(req) ==
  /\ Routed(req, "chunked/commit")
  /\ Reply(req, "chunked/commit", commitChunks(req, Roles(req)))

StageChunk(req) == Routed(req, "chunked") /\ Reply(req, "chunked", stageChunk(req, Roles(req)))

CreateFolder(req) ==
  /\ Routed(req, "folders/create")
  /\ Reply(req, "folders/create", createFolder(req, Roles(req)))

MoveFile(req) == Routed(req, "move") /\ Reply(req, "move", moveFile(req, Roles(req)))

RenameFile(req) == Routed(req, "rename") /\ Reply(req, "rename", renameFile(req, Roles(req)))

UploadFile(req) == Routed(req, "upload") /\ Reply(req, "upload", uploadFile(req, Roles(req)))

DownloadFile(req) ==
  /\ Routed(req, "download")
  /\ Reply(req, "download", downloadFile(req, Roles(req)))

DeleteFile(req) == Routed(req, "delete") /\ Reply(req, "delete", deleteFile(req, Roles(req)))

NoResponse ==
  [req |-> NoRequest, route |-> "none", status |-> 0, calls |-> <<>>, token |-> NoToken,
   content |-> <<>>, exists |-> FALSE, listing |-> EmptyListing]

NoCall == [fn |-> "none"]

\* the clock advances
Tick(d) ==
  /\ ticks < MaxTicks
  /\ now' = now + d
  /\ ticks' = ticks + 1
  /\ last' = NoResponse
  /\ call' = NoCall
  /\ UNCHANGED <<blobs, staged, pending, everStaged, issued, wiring, inflight>>

InitStore ==
  /\ blobs = EmptyMap
  /\ staged = EmptyMap
  /\ pending = EmptyMap
  /\ everStaged = EmptyMap

---------------------------------------------------------------------------
(* Chunked uploads to one target key *)

ReaderGroups == {"readers"}
UploaderGroups == {"uploaders"}

\* the file being uploaded holds the byte Letters[i + 1] in chunk i; a chunk
\* is also sent with other bytes ("Z")
Letters == <<"A", "B", "C", "D", "E", "F", "G", "H">>

OtherByte == "Z"

ChunkBytes(indexText) ==
  {OtherByte} \cup (IF IndexOfText(indexText) \in 0..(Len(Letters) - 1)
                   THEN {Letters[IndexOfText(indexText) + 1]} ELSE {})

\* the chunk index texts sent: the decimal forms of 0 .. MaxChunks-1, and
\* one with a leading zero (ChunkRequests adds the index MaxChunks, one past
\* the last chunk of the file)
IndexTexts == {ToDecimal(i) : i \in 0..(MaxChunks - 1)} \cup {<<"0", "1">>}

StageRequest(groups, filename, hasChunkIndex, chunkIndex, totalChunks, files) ==
  [Request("POST", <<"/", "chunked">>, Bearer(groups)) EXCEPT
     !.query.filename = filename, !.query.hasChunkIndex = hasChunkIndex,
     !.query.chunkIndex = chunkIndex, !.query.totalChunks = totalChunks,
     !.files = files]

CommitRequest(groups, filename, totalChunks) ==
  [Request("POST", <<"/", "chunked", "/", "commit">>, Bearer(groups)) EXCEPT
     !.body.filename = filename, !.body.totalChunks = totalChunks]

ChunkFile == <<"f">>

ChunkRequests ==
  UNION {{StageRequest(UploaderGroups, ChunkFile, TRUE, t, ToDecimal(MaxChunks),
                       <<FilePart(<<"blob">>, <<b>>)>>) : b \in ChunkBytes(t)} : t \in IndexTexts}
  \cup {StageRequest(UploaderGroups, ChunkFile, FALSE, <<>>, ToDecimal(MaxChunks),
                     <<FilePart(<<"blob">>, <<"A">>)>>),
        StageRequest(ReaderGroups, ChunkFile, TRUE, <<"0">>, ToDecimal(MaxChunks),
                     <<FilePart(<<"blob">>, <<"A">>)>>),
        StageRequest(UploaderGroups, ChunkFile, TRUE, <<"0">>, ToDecimal(MaxChunks), <<>>),
        StageRequest(UploaderGroups, ChunkFile, TRUE, ToDecimal(MaxChunks), ToDecimal(MaxChunks),
                     <<FilePart(<<"blob">>, <<OtherByte>>)>>)}
  \cup {CommitRequest(UploaderGroups, ChunkFile, JNum(n)) : n \in 0..MaxChunks}
  \cup {CommitRequest(ReaderGroups, ChunkFile, JNum(1)),
        CommitRequest(UploaderGroups, ChunkFile, JStr(<<"x">>)),
        [Request("POST", <<"/", "chunked">>, NoAuthHeader) EXCEPT !.query.filename = ChunkFile]}

InitChunk ==
  /\ InitStore
  /\ inflight = <<>>
  /\ now = 0
  /\ ticks = 0
  /\ issued = {}
  /\ wiring = "commit-json"
  /\ last = NoResponse
  /\ call = NoCall

NextChunk ==
  \E req \in ChunkRequests :
    \/ AuthReject(req)
    \/ StageChunk(req)
    \/ CommitChunks(req)

SpecChunk == InitChunk /\ [][NextChunk]_vars

---------------------------------------------------------------------------
(* Download tokens: issue through the route, verify at any later time *)

MaxTokens == 2

\* the clock advances by a second, or by the lifetime of a token
ClockSteps == {1, DOWNLOAD_TOKEN_TTL_SECONDS}

TokenRequest(groups, path) ==
  [Request("POST", <<"/", "download-token">>, Bearer(groups)) EXCEPT !.body.path = path]

TokenPaths == {<<"a">>, <<"/", "d", "/", "a">>, <<"a", "|", "b">>, <<"|", "a">>}

TokenRequests ==
  {TokenRequest(ReaderGroups, p) : p \in TokenPaths \cup {<<>>}}
  \cup {TokenRequest({}, <<"a">>),
        [Request("POST", <<"/", "download-token">>, NoAuthHeader) EXCEPT !.body.path = <<"a">>]}

\* a token whose signature text is replaced, one whose path is replaced, and
\* one whose expiry is put off
Tampered(token) ==
  LET parts == Split(Base64UrlDecode(token), "|")
  IN {Base64UrlEncode(parts[1] \o <<"|">> \o parts[2] \o <<"|", "x">>),
      Base64UrlEncode(<<"x", "|">> \o parts[2] \o <<"|">> \o parts[Len(parts)]),
      Base64UrlEncode(parts[1] \o <<"|", "9">> \o parts[2] \o <<"|">> \o parts[Len(parts)])}

\* verifyDownloadToken(token) at the present clock
VerifyToken(token) ==
  /\ call' = [fn |-> "verifyDownloadToken", token |-> token, clock |-> now,
              result |-> verifyDownloadToken(token, now)]
  /\ last' = NoResponse
  /\ UNCHANGED <<blobs, staged, pending, everStaged, issued, now, ticks, wiring, inflight>>

InitToken ==
  /\ InitStore
  /\ inflight = <<>>
  /\ now = 7
  /\ ticks = 0
  /\ issued = {}
  /\ wiring = "commit-json"
  /\ last = NoResponse
  /\ call = NoCall

NextToken ==
  \/ \E req \in TokenRequests :
       \/ AuthReject(req)
       \/ Cardinality(issued) < MaxTokens /\ IssueDownloadToken(req)
  \/ \E i \in issued : VerifyToken(i.token)
  \/ \E i \in issued : \E t \in Tampered(i.token) : VerifyToken(t)
  \/ \E d \in ClockSteps : Tick(d)

SpecToken == InitToken /\ [][NextToken]_vars

---------------------------------------------------------------------------
(* checkPermission over every role set *)

RoleSets == [isReader : BOOLEAN, isUploader : BOOLEAN, isAdmin : BOOLEAN]

RequiredRoles == {"reader", "uploader", "admin", "", "Reader", "owner", "readers"}

\* checkPermission(roles, requiredRole) is called with the inputs drawn
CheckPermission ==
  /\ call.fn = "drawn"
  /\ call' = [fn |-> "checkPermission", roles |-> call.roles,
              requiredRole |-> call.requiredRole,
              result |-> checkPermission(call.roles, call.requiredRole)]
  /\ UNCHANGED <<blobs, staged, pending, everStaged, issued, now, ticks, wiring, last, inflight>>

InitPure ==
  /\ InitStore
  /\ inflight = <<>>
  /\ now = 0
  /\ ticks = 0
  /\ issued = {}
  /\ wiring = "commit-json"
  /\ last = NoResponse
  /\ call \in {[fn |-> "drawn", roles |-> r, requiredRole |-> q] :
                 r \in RoleSets, q \in RequiredRoles}

NextPure == CheckPermission

SpecPure == InitPure /\ [][NextPure]_vars

---------------------------------------------------------------------------
(* The path helpers and the block ids over every short input *)

MaxPathLen == 4

\* the strings of at most n characters over the given characters
Strings(chars, n) == UNION {[1..k -> chars] : k \in 0..n}

\* the texts in which a request may carry the chunk index i
IndexForms(i) ==
  {ToDecimal(i), PadStart(ToDecimal(i), 2, "0"), PadStart(ToDecimal(i), ChunkIdWidth + 1, "0"),
   <<"+">> \o ToDecimal(i)}

\* normalizePath, getFolderPath, getBaseName and the rename route's newPath
PathHelpers ==
  /\ call.fn = "drawn path"
  /\ call' = [fn |-> "paths", path |-> call.path, newName |-> call.newName,
              normalized |-> normalizePath(call.path),
              folder |-> getFolderPath(call.path),
              base |-> getBaseName(call.path),
              newPath |-> renamePath(call.path, call.newName)]
  /\ UNCHANGED <<blobs, staged, pending, everStaged, issued, now, ticks, wiring, last, inflight>>

\* the block id of the stage route and the block list of the commit route
BlockIds ==
  /\ call.fn = "drawn index"
  /\ call' = [fn |-> "blockId", chunkIndex |-> call.chunkIndex,
              totalChunks |-> call.totalChunks,
              id |-> blockId(call.chunkIndex),
              ids |-> commitBlockIds(call.totalChunks)]
  /\ UNCHANGED <<blobs, staged, pending, everStaged, issued, now, ticks, wiring, last, inflight>>

InitHelpers ==
  /\ InitStore
  /\ inflight = <<>>
  /\ now = 0
  /\ ticks = 0
  /\ issued = {}
  /\ wiring = "commit-json"
  /\ last = NoResponse
  /\ call \in {[fn |-> "drawn path", path |-> p, newName |-> n] :
                 p \in Strings({"/", "a", "."}, MaxPathLen), n \in Strings({"/", "a"}, 2)}
          \cup {[fn |-> "drawn index", chunkIndex |-> t, totalChunks |-> n] :
                 t \in UNION {IndexForms(i) : i \in 0..(MaxChunks - 1)}, n \in 1..MaxChunks}

NextHelpers == PathHelpers \/ BlockIds

SpecHelpers == InitHelpers /\ [][NextHelpers]_vars

---------------------------------------------------------------------------
(* The server: every route behind authMiddleware *)

MaxLinks == 1
MaxWaits == 1

KeyA == <<"a">>
FolderD == <<"d">>
KeyDA == <<"d", "/", "a">>

NoRoleGroups == {}

Get(auth, path) == Request("GET", path, auth)
Post(auth, path) == Request("POST", path, auth)
Delete(auth, path) == Request("DELETE", path, auth)

WithToken(req, dt) == [req EXCEPT !.query.dt = dt]

\* a bearer token issued for another audience
ForeignBearer == [Bearer(UploaderGroups) EXCEPT !.aud = "other"]

OneFile == <<FilePart(KeyA, <<"x">>)>>

\* (the chunk requests sent here are the refused and the incomplete ones;
\* chunked uploads that stage and commit are the subject of SpecChunk)

\* requests of principals that lack the role their route asks for
UnderprivilegedRequests ==
  {Get(Bearer(NoRoleGroups), <<"/">>),
   Get(Bearer(NoRoleGroups), <<"/", "exists", "/">> \o KeyA),
   [Post(Bearer(NoRoleGroups), <<"/", "download-token">>) EXCEPT !.body.path = KeyA],
   [Post(Bearer(ReaderGroups), <<"/">>) EXCEPT !.files = OneFile],
   StageRequest(ReaderGroups, KeyA, TRUE, <<"0">>, <<"1">>, OneFile),
   CommitRequest(ReaderGroups, KeyA, JNum(1)),
   [Post(Bearer(ReaderGroups), <<"/", "folders", "/", "create">>) EXCEPT !.body.folderPath = FolderD],
   [Post(Bearer(ReaderGroups), <<"/", "move">>) EXCEPT
      !.body.sourcePath = KeyA, !.body.destinationPath = KeyDA],
   [Post(Bearer(ReaderGroups), <<"/", "rename">>) EXCEPT
      !.body.oldPath = KeyDA, !.body.newName = KeyA],
   Delete(Bearer(ReaderGroups), <<"/">> \o KeyA),
   Delete(Bearer(NoRoleGroups), <<"/", "folders", "/">> \o FolderD)}

\* downloads by principals without the reader role, and without credentials
LinkDownloads ==
  {Get(auth, <<"/">> \o key) : auth \in {NoAuthHeader, Bearer(NoRoleGroups)},
                               key \in {KeyA, KeyDA}}

PrivilegedRequests ==
  {Get(Bearer(ReaderGroups), <<"/">>),
   [Get(Bearer(ReaderGroups), <<"/">>) EXCEPT !.query.folder = FolderD],
   Get(Bearer(ReaderGroups), <<"/", "exists", "/">> \o KeyA),
   [Post(Bearer(ReaderGroups), <<"/", "download-token">>) EXCEPT !.body.path = KeyA],
   [Post(Bearer(ReaderGroups), <<"/", "download-token">>) EXCEPT !.body.path = FolderD],
   Post(Bearer(ReaderGroups), <<"/", "download-token">>),
   Get(Bearer(ReaderGroups), <<"/">> \o KeyA),
   Get(Bearer(ReaderGroups), <<"/">> \o KeyDA),
   [Post(Bearer(UploaderGroups), <<"/">>) EXCEPT !.files = OneFile],
   [Post(Bearer(UploaderGroups), <<"/">>) EXCEPT !.files = OneFile, !.query.folder = FolderD],
   Post(Bearer(UploaderGroups), <<"/">>),
   StageRequest(UploaderGroups, KeyA, FALSE, <<>>, <<"1">>, OneFile),
   StageRequest(UploaderGroups, <<>>, TRUE, <<"0">>, <<"1">>, OneFile),
   StageRequest(UploaderGroups, KeyA, TRUE, <<"0">>, <<>>, OneFile),
   StageRequest(UploaderGroups, KeyA, TRUE, <<"0">>, <<"1">>, <<>>),
   CommitRequest(UploaderGroups, <<>>, JNum(1)),
   CommitRequest(UploaderGroups, KeyA, JNone),
   CommitRequest(UploaderGroups, KeyA, JNum(1)),
   [Post(Bearer(UploaderGroups), <<"/", "folders", "/", "create">>) EXCEPT !.body.folderPath = FolderD],
   Post(Bearer(UploaderGroups), <<"/", "folders", "/", "create">>),
   [Post(Bearer(UploaderGroups), <<"/", "move">>) EXCEPT
      !.body.sourcePath = KeyA, !.body.destinationPath = KeyDA],
   [Post(Bearer(UploaderGroups), <<"/", "move">>) EXCEPT !.body.sourcePath = KeyA],
   [Post(Bearer(UploaderGroups), <<"/", "rename">>) EXCEPT
      !.body.oldPath = KeyDA, !.body.newName = KeyA],
   [Post(Bearer(UploaderGroups), <<"/", "rename">>) EXCEPT !.body.oldPath = KeyDA],
   Delete(Bearer(UploaderGroups), <<"/">> \o KeyA),
   Delete(Bearer(UploaderGroups), <<"/">> \o KeyA \o <<"/">>),
   Delete(Bearer(UploaderGroups), <<"/", "folders", "/">> \o FolderD),
   Request("PUT", <<"/">>, Bearer(UploaderGroups)),
   Get(ForeignBearer, <<"/">>)}

\* the requests sent when the tokens in links are the given ones
Requests(links) ==
  PrivilegedRequests \cup UnderprivilegedRequests \cup LinkDownloads
  \cup {WithToken(r, t) : r \in UnderprivilegedRequests \cup LinkDownloads, t \in links}
  \cup {WithToken(Get(Bearer(NoRoleGroups), <<"/">> \o key), t) :
          key \in {KeyA, KeyDA}, t \in UNION {Tampered(l) : l \in links}}

Init ==
  /\ InitStore
  /\ inflight = <<>>
  /\ now = 7
  /\ ticks = 0
  /\ issued = {}
  /\ wiring \in {"commit-json", "global-json"}
  /\ last = NoResponse
  /\ call = NoCall

\* one request through the server: the one handler it is routed to runs.
\* No request is routed to "folders/delete": the DELETE route registered
\* before it matches every path that it matches.
Serve(req) ==
  LET target == Target(req) IN
  \/ target = "auth" /\ AuthReject(req)
  \/ target = "none" /\ NoRoute(req)
  \/ target = "list" /\ ListFiles(req)
  \/ target = "exists" /\ CheckExists(req)
  \/ target = "download-token" /\ Cardinality(issued) < MaxLinks /\ IssueDownloadToken(req)
  \/ target = "chunked/commit" /\ CommitChunks(req)
  \/ target = "chunked" /\ StageChunk(req)
  \/ target = "folders/create" /\ CreateFolder(req)
  \/ target = "move" /\ MoveFile(req)
  \/ target = "rename" /\ RenameFile(req)
  \/ target = "upload" /\ UploadFile(req)
  \/ target = "download" /\ DownloadFile(req)
  \/ target = "delete" /\ DeleteFile(req)

Next ==
  \/ \E req \in Requests({i.token : i \in issued}) : Serve(req)
  \/ ticks < MaxWaits /\ Tick(DOWNLOAD_TOKEN_TTL_SECONDS + 1)

Spec == Init /\ [][Next]_vars

---------------------------------------------------------------------------
(* buildHierarchy over every set of keys and both listing levels *)

ListedKeys ==
  {<<"a">>, <<"a", "/", "x">>, <<"a", "/", "d", "/", "x">>, <<"a", "b", "/", "x">>,
   <<"a", "/", ".keep">>, <<".keep">>, <<"d", "/", ".keep">>, <<"a", "/", "/", "x">>}

ListedFolders == {<<>>, <<"a">>}

\* a container holding empty blobs at the given keys
ContainerOf(keys) == [k \in keys |-> <<>>]

\* buildHierarchy(blobs, folderPath) is called with the inputs drawn
BuildHierarchy ==
  /\ call.fn = "drawn"
  /\ call' = [fn |-> "buildHierarchy", keys |-> call.keys, folder |-> call.folder,
              result |-> buildHierarchy(listBlobsFlat(ContainerOf(call.keys), <<>>),
                                        call.folder)]
  /\ UNCHANGED <<blobs, staged, pending, everStaged, issued, now, ticks, wiring, last, inflight>>

InitList ==
  /\ InitStore
  /\ inflight = <<>>
  /\ now = 0
  /\ ticks = 0
  /\ issued = {}
  /\ wiring = "commit-json"
  /\ last = NoResponse
  /\ call \in {[fn |-> "drawn", keys |-> K, folder |-> P] :
                 K \in SUBSET ListedKeys, P \in ListedFolders}

NextList == BuildHierarchy

SpecList == InitList /\ [][NextList]_vars

---------------------------------------------------------------------------
(* Chunk requests whose bodies arrive at the same time *)

MaxSenders == 2

\* the pieces in which the body of request r arrives
Pieces(r) == <<<<Letters[2 * r - 1]>>, <<Letters[2 * r]>>>>

RECURSIVE BufferConcat(_)
\* Buffer.concat(buffers, totalSize)
BufferConcat(buffers) ==
  IF buffers = <<>> THEN <<>> ELSE Head(buffers) \o BufferConcat(Tail(buffers))

onDataShared(fl, r) ==
  [q \in DOMAIN fl |->
     IF q = r THEN [fl[q] EXCEPT !.buffers = Append(@, Head(fl[r].rest)), !.rest = Tail(@)]
     ELSE IF fl[q].pc = "receiving" THEN [fl[q] EXCEPT !.buffers = Append(@, Head(fl[r].rest))]
     ELSE fl[q]]

\* file.on('data'): the piece goes to the buffers of the request it came with
onData(fl, r) ==
  [fl EXCEPT ![r].buffers = Append(@, Head(fl[r].rest)), ![r].rest = Tail(@)]

\* file.on('end'): the buffers are joined and stageBlock is called
onEnd(fl, r) ==
  [fl EXCEPT ![r].pc = "staging", ![r].buffer = BufferConcat(fl[r].buffers)]

\* the 'file' handler: a block id and an empty buffers array for this request
StageFile(r, chunkIndex) ==
  /\ inflight[r].pc = "idle"
  /\ inflight' = [inflight EXCEPT ![r] = [pc |-> "receiving", index |-> chunkIndex,
                                          rest |-> Pieces(r), buffers |-> <<>>,
                                          buffer |-> <<>>]]
  /\ UNCHANGED <<blobs, staged, pending, everStaged, issued, now, ticks, wiring, last, call>>

StageData(r) ==
  /\ inflight[r].pc = "receiving"
  /\ inflight[r].rest # <<>>
  /\ inflight' = onData(inflight, r)
  /\ UNCHANGED <<blobs, staged, pending, everStaged, issued, now, ticks, wiring, last, call>>

StageEnd(r) ==
  /\ inflight[r].pc = "receiving"
  /\ inflight[r].rest = <<>>
  /\ inflight' = onEnd(inflight, r)
  /\ UNCHANGED <<blobs, staged, pending, everStaged, issued, now, ticks, wiring, last, call>>

\* the awaited stageBlock call is served by the store and the request answered
StageBlockDone(r) ==
  /\ inflight[r].pc = "staging"
  /\ LET done == stageOne(blobs, staged, ChunkFile, inflight[r].index, inflight[r].buffer)
     IN /\ blobs' = done.blobs
        /\ staged' = done.staged
  /\ inflight' = [inflight EXCEPT ![r].pc = "done"]
  /\ last' = [NoResponse EXCEPT !.route = "chunked", !.status = 200,
                                !.calls = <<StoreCall("stageBlock", ChunkFile)>>]
  /\ UNCHANGED <<pending, everStaged, issued, now, ticks, wiring, call>>

InitStaging ==
  /\ InitStore
  /\ now = 0
  /\ ticks = 0
  /\ issued = {}
  /\ wiring = "commit-json"
  /\ last = NoResponse
  /\ call = NoCall
  /\ inflight = [r \in 1..MaxSenders |->
                   [pc |-> "idle", index |-> <<>>, rest |-> <<>>, buffers |-> <<>>,
                    buffer |-> <<>>]]

NextStaging ==
  \E r \in 1..MaxSenders :
    \/ \E chunkIndex \in IndexTexts : StageFile(r, chunkIndex)
    \/ StageData(r)
    \/ StageEnd(r)
    \/ StageBlockDone(r)

SpecStaging == InitStaging /\ [][NextStaging]_vars

---------------------------------------------------------------------------
(* Direct uploads: the file stream handed to uploadStream *)

MaxUploads == 2

\* uploadStream names its blocks by a prefix of its own and the block number
uploadBlockId(u, n) == Base64Encode(<<"upload-", ToDecimal(u), "-", ToDecimal(n)>>)

abortUploadCommitting(B, S, fl, u) ==
  LET done == storeCommitBlockList(B, S, fl[u].key, fl[u].ids)
  IN [blobs |-> done.blobs, staged |-> done.staged, inflight |-> [fl EXCEPT ![u].pc = "failed"]]

\* the file stream fails or stalls (the client is gone, the form ends early):
\* uploadStream rejects or never resolves; the .catch only logs
abortUpload(B, S, fl, u) ==
  [blobs |-> B, staged |-> S, inflight |-> [fl EXCEPT ![u].pc = "failed"]]

\* the 'file' handler: uploadStream(file, ...) is started, not awaited, and
\* the request is answered 'File upload started'
UploadStart(u, fullPath) ==
  /\ inflight[u].pc = "idle"
  /\ inflight' = [inflight EXCEPT ![u] = [pc |-> "streaming", key |-> fullPath,
                                          rest |-> Pieces(u), ids |-> <<>>]]
  /\ last' = [NoResponse EXCEPT !.route = "upload", !.status = 200,
                                !.calls = <<StoreCall("uploadStream", fullPath)>>]
  /\ UNCHANGED <<blobs, staged, pending, everStaged, issued, now, ticks, wiring, call>>

\* uploadStream stages the next buffer of the stream as an uncommitted block
UploadBlock(u) ==
  /\ inflight[u].pc = "streaming"
  /\ inflight[u].rest # <<>>
  /\ LET id == uploadBlockId(u, Len(inflight[u].ids))
         done == storeStageBlock(blobs, staged, inflight[u].key, id, Head(inflight[u].rest))
     IN /\ blobs' = done.blobs
        /\ staged' = done.staged
        /\ inflight' = [inflight EXCEPT ![u].rest = Tail(@), ![u].ids = Append(@, id)]
  /\ UNCHANGED <<pending, everStaged, issued, now, ticks, wiring, last, call>>

\* the stream ended: uploadStream commits the list of its blocks
UploadCommit(u) ==
  /\ inflight[u].pc = "streaming"
  /\ inflight[u].rest = <<>>
  /\ LET done == storeCommitBlockList(blobs, staged, inflight[u].key, inflight[u].ids)
     IN /\ blobs' = done.blobs
        /\ staged' = done.staged
        /\ inflight' = [inflight EXCEPT ![u].pc = IF done.ok THEN "completed" ELSE "failed"]
  /\ UNCHANGED <<pending, everStaged, issued, now, ticks, wiring, last, call>>

UploadAbort(u) ==
  /\ inflight[u].pc = "streaming"
  /\ LET done == abortUpload(blobs, staged, inflight, u)
     IN /\ blobs' = done.blobs
        /\ staged' = done.staged
        /\ inflight' = done.inflight
  /\ UNCHANGED <<pending, everStaged, issued, now, ticks, wiring, last, call>>

InitUpload ==
  /\ InitStore
  /\ now = 0
  /\ ticks = 0
  /\ issued = {}
  /\ wiring = "commit-json"
  /\ last = NoResponse
  /\ call = NoCall
  /\ inflight = [u \in 1..MaxUploads |->
                   [pc |-> "idle", key |-> <<>>, rest |-> <<>>, ids |-> <<>>]]

NextUpload ==
  \E u \in 1..MaxUploads :
    \/ \E fullPath \in {KeyA, KeyDA} : UploadStart(u, fullPath)
    \/ UploadBlock(u)
    \/ UploadCommit(u)
    \/ UploadAbort(u)

SpecUpload == InitUpload /\ [][NextUpload]_vars

---------------------------------------------------------------------------
(* Moves seen between their two store calls *)

MaxMoves == 2

\* the object stored before the moves
Stored(content) == <<[id |-> NoId, data |-> content]>>

\* await destClient.beginCopyFromURL(sourceClient.url); pollUntilDone()
MoveCopy(m, S, D) ==
  /\ inflight[m].pc = "idle"
  /\ LET done == storeCopy(blobs, staged, S, D)
     IN /\ blobs' = done.blobs
        /\ staged' = done.staged
        /\ inflight' = [inflight EXCEPT ![m] = [pc |-> IF done.ok THEN "copied" ELSE "failed",
                                                 copied |-> done.ok, src |-> S, dst |-> D]]
        /\ last' = IF done.ok THEN last
                   ELSE [NoResponse EXCEPT !.route = "move", !.status = 500,
                                           !.calls = <<StoreCall("beginCopyFromURL", D)>>]
  /\ UNCHANGED <<pending, everStaged, issued, now, ticks, wiring, call>>

\* await sourceClient.delete(), then the answer
MoveDelete(m) ==
  /\ inflight[m].pc = "copied"
  /\ LET done == storeDelete(blobs, staged, inflight[m].src)
     IN /\ blobs' = done.blobs
        /\ staged' = done.staged
        /\ inflight' = [inflight EXCEPT ![m].pc = IF done.ok THEN "done" ELSE "failed"]
        /\ last' = [NoResponse EXCEPT !.route = "move",
                                      !.status = IF done.ok THEN 200 ELSE 500,
                                      !.calls = <<StoreCall("beginCopyFromURL", inflight[m].dst),
                                                  StoreCall("delete", inflight[m].src)>>]
  /\ UNCHANGED <<pending, everStaged, issued, now, ticks, wiring, call>>

\* the delete call throws for a reason of the store or the network: catch, 500
MoveDeleteFails(m) ==
  /\ inflight[m].pc = "copied"
  /\ inflight' = [inflight EXCEPT ![m].pc = "failed"]
  /\ last' = [NoResponse EXCEPT !.route = "move", !.status = 500,
                                !.calls = <<StoreCall("beginCopyFromURL", inflight[m].dst),
                                            StoreCall("delete", inflight[m].src)>>]
  /\ UNCHANGED <<blobs, staged, pending, everStaged, issued, now, ticks, wiring, call>>

InitMove ==
  /\ blobs \in {[k \in K |-> Stored(k)] : K \in SUBSET {KeyA, KeyDA}}
  /\ staged = EmptyMap
  /\ pending = EmptyMap
  /\ everStaged = EmptyMap
  /\ now = 0
  /\ ticks = 0
  /\ issued = {}
  /\ wiring = "global-json"
  /\ last = NoResponse
  /\ call = NoCall
  /\ inflight = [m \in 1..MaxMoves |->
                   [pc |-> "idle", copied |-> FALSE, src |-> <<>>, dst |-> <<>>]]

NextMove ==
  \E m \in 1..MaxMoves :
    \/ \E S, D \in {KeyA, KeyDA} : MoveCopy(m, S, D)
    \/ MoveDelete(m)
    \/ MoveDeleteFails(m)

SpecMove == InitMove /\ [][NextMove]_vars

---------------------------------------------------------------------------
(* Folders: uploads, folder markers and deletions behind authMiddleware *)

FolderWord == <<"folders">>

\* a token written by the caller: the claims of a token of the identity
\* provider, without its signature
ForgedBearer(groups) == [Bearer(groups) EXCEPT !.authentic = FALSE]

FolderRequests ==
  {[Post(Bearer(UploaderGroups), <<"/">>) EXCEPT
      !.files = <<FilePart(name, data)>>, !.query.folder = folder] :
     name \in {KeyA, FolderD}, data \in {<<"x">>, <<"y">>},
     folder \in {<<>>, FolderD, FolderWord}}
  \cup {[Post(Bearer(UploaderGroups), <<"/", "folders", "/", "create">>) EXCEPT
          !.body.folderPath = FolderD]}
  \cup {Delete(Bearer(UploaderGroups), <<"/", "folders", "/">> \o F) : F \in {KeyA, FolderD}}
  \cup {Delete(Bearer(UploaderGroups), <<"/">> \o KeyDA)}
  \cup {[Get(Bearer(ReaderGroups), <<"/">>) EXCEPT !.query.folder = folder] :
          folder \in {<<>>, FolderD}}
  \cup {Get(NoAuthHeader, <<"/">>), Get(ForeignBearer, <<"/">>),
        Get(ForgedBearer(ReaderGroups), <<"/">>),
        Delete(ForgedBearer(UploaderGroups), <<"/">> \o KeyDA)}

InitFolder ==
  /\ InitStore
  /\ inflight = <<>>
  /\ now = 7
  /\ ticks = 0
  /\ issued = {}
  /\ wiring = "commit-json"
  /\ last = NoResponse
  /\ call = NoCall

\* one request through the server, as in Serve
NextFolder ==
  \E req \in FolderRequests :
    \/ AuthReject(req)
    \/ UploadFile(req)
    \/ CreateFolder(req)
    \/ DeleteFile(req)
    \/ ListFiles(req)

SpecFolder == InitFolder /\ [][NextFolder]_vars

---------------------------------------------------------------------------
(* One multipart request seen event by event: the handlers that            *)
(* router.post('/chunked') and router.post('/') register on the parser and *)
(* on its file streams.  The request in flight is the record inflight:     *)
(* rest are the file parts not yet parsed, streams the open file streams   *)
(* of the stage route, awaiting the buffers of the stageBlock calls not    *)
(* yet settled, responses the number of responses sent; attempts counts    *)
(* the handlers that came to the point of answering.                       *)

MaxParts == 2

Bodies == {[i \in 1..n |-> FilePart(<<"blob">>, <<Letters[i]>>)] : n \in 0..MaxParts}

EventRequests ==
  {StageRequest(groups, ChunkFile, TRUE, <<"0">>, <<"1">>, files) :
     groups \in {UploaderGroups, ReaderGroups}, files \in Bodies}
  \cup {StageRequest(UploaderGroups, <<>>, TRUE, <<"0">>, <<"1">>, files) : files \in Bodies}
  \cup {[Post(Bearer(groups), <<"/">>) EXCEPT !.files = files] :
          groups \in {UploaderGroups, ReaderGroups}, files \in Bodies}

IsStage(fl) == fl.req.path = <<"/", "chunked">>

DropAt(s, i) == SubSeq(s, 1, i - 1) \o SubSeq(s, i + 1, Len(s))

\* res.status(status).json(...)
send(fl, status) == [fl EXCEPT !.responses = @ + 1, !.status = status]

respondUnguarded(fl, status) ==
  send([fl EXCEPT !.responded = TRUE, !.attempts = @ + 1], status)

\* if (!responded) { responded = true; res.status(status).json(...) }
respond(fl, status) ==
  IF fl.responded THEN [fl EXCEPT !.attempts = @ + 1]
  ELSE send([fl EXCEPT !.responded = TRUE, !.attempts = @ + 1], status)

\* the handler up to req.pipe(bb): the permission and parameter checks
EventBegin ==
  /\ inflight.pc = "new"
  /\ LET req == inflight.req IN
     inflight' =
       IF ~checkPermission(Roles(req), "uploader")
         THEN send([inflight EXCEPT !.pc = "refused"], 403)
       ELSE IF /\ IsStage(inflight)
               /\ \/ Falsy(req.query.filename)
                  \/ ~req.query.hasChunkIndex
                  \/ Falsy(req.query.totalChunks)
         THEN send([inflight EXCEPT !.pc = "refused"], 400)
       ELSE [inflight EXCEPT !.pc = "receiving"]
  /\ UNCHANGED <<blobs, staged, pending, everStaged, issued, now, ticks, wiring, last, call>>

\* bb.on('file'): the stage route collects the part; the upload route, whose
\* parser is limited to one file, starts uploadStream and answers
EventFile ==
  /\ inflight.pc = "receiving"
  /\ inflight.rest # <<>>
  /\ IsStage(inflight) \/ ~inflight.fileReceived
  /\ LET part == Head(inflight.rest)
         parsed == [inflight EXCEPT !.rest = Tail(@)]
     IN inflight' =
          IF IsStage(inflight)
            THEN [parsed EXCEPT !.streams = Append(@, [rest |-> <<part.data>>, buffers |-> <<>>])]
          ELSE respond([parsed EXCEPT !.fileReceived = TRUE, !.uploading = "running",
                                      !.upload = part], 200)
  /\ UNCHANGED <<blobs, staged, pending, everStaged, issued, now, ticks, wiring, last, call>>

\* file.on('data') of the stage route
EventData ==
  /\ \E i \in DOMAIN inflight.streams :
       /\ inflight.streams[i].rest # <<>>
       /\ inflight' = [inflight EXCEPT
                         !.streams[i].buffers = Append(@, Head(inflight.streams[i].rest)),
                         !.streams[i].rest = Tail(@)]
  /\ UNCHANGED <<blobs, staged, pending, everStaged, issued, now, ticks, wiring, last, call>>

\* file.on('end') of the stage route, up to the awaited stageBlock call
EventEnd ==
  /\ \E i \in DOMAIN inflight.streams :
       /\ inflight.streams[i].rest = <<>>
       /\ inflight' = [inflight EXCEPT
                         !.streams = DropAt(@, i),
                         !.awaiting = Append(@, BufferConcat(inflight.streams[i].buffers))]
  /\ UNCHANGED <<blobs, staged, pending, everStaged, issued, now, ticks, wiring, last, call>>

\* file.on('error') of the stage route
EventFileError ==
  /\ \E i \in DOMAIN inflight.streams :
       inflight' = respond([inflight EXCEPT !.streams = DropAt(@, i)], 500)
  /\ UNCHANGED <<blobs, staged, pending, everStaged, issued, now, ticks, wiring, last, call>>

\* stageBlock resolved: 'Chunk uploaded'
EventStaged ==
  /\ \E j \in DOMAIN inflight.awaiting :
       LET fullPath == JoinPath(TargetFolder(inflight.req.query.folder),
                                inflight.req.query.filename)
           done == storeStageBlock(blobs, staged, fullPath,
                                   blockId(inflight.req.query.chunkIndex),
                                   inflight.awaiting[j])
       IN /\ blobs' = done.blobs
          /\ staged' = done.staged
          /\ inflight' = respond([inflight EXCEPT !.awaiting = DropAt(@, j)], 200)
  /\ UNCHANGED <<pending, everStaged, issued, now, ticks, wiring, last, call>>

\* stageBlock rejected: the catch block, 'Failed to stage block'
EventStageFailed ==
  /\ \E j \in DOMAIN inflight.awaiting :
       inflight' = respond([inflight EXCEPT !.awaiting = DropAt(@, j)], 500)
  /\ UNCHANGED <<blobs, staged, pending, everStaged, issued, now, ticks, wiring, last, call>>

\* bb.on('error')
EventBusboyError ==
  /\ inflight.pc = "receiving"
  /\ inflight' = respond([inflight EXCEPT !.pc = "failed"], 500)
  /\ UNCHANGED <<blobs, staged, pending, everStaged, issued, now, ticks, wiring, last, call>>

\* the parser has read the whole body: bb.on('finish') of the upload route
\* ('No file provided'); the stage route registers no handler for it
EventFinish ==
  /\ inflight.pc = "receiving"
  /\ inflight.rest = <<>> \/ (~IsStage(inflight) /\ inflight.fileReceived)
  /\ inflight' =
       IF ~IsStage(inflight) /\ ~inflight.fileReceived
         THEN respond([inflight EXCEPT !.pc = "finished"], 400)
       ELSE [inflight EXCEPT !.pc = "finished"]
  /\ UNCHANGED <<blobs, staged, pending, everStaged, issued, now, ticks, wiring, last, call>>

\* uploadStream resolved: the blob is written, 'Upload completed' is logged
EventUploadDone ==
  /\ inflight.uploading = "running"
  /\ LET safeFilename == IF inflight.upload.filename # <<>> THEN inflight.upload.filename
                         ELSE <<"upload_">> \o ToDecimal(now)
         fullPath == JoinPath(TargetFolder(inflight.req.query.folder), safeFilename)
         done == storePut(blobs, staged, fullPath, inflight.upload.data)
     IN /\ blobs' = done.blobs
        /\ staged' = done.staged
  /\ inflight' = [inflight EXCEPT !.uploading = "done"]
  /\ UNCHANGED <<pending, everStaged, issued, now, ticks, wiring, last, call>>

\* uploadStream rejected: 'Upload failed' is logged
EventUploadFailed ==
  /\ inflight.uploading = "running"
  /\ inflight' = [inflight EXCEPT !.uploading = "failed"]
  /\ UNCHANGED <<blobs, staged, pending, everStaged, issued, now, ticks, wiring, last, call>>

InitEvents ==
  /\ InitStore
  /\ now = 7
  /\ ticks = 0
  /\ issued = {}
  /\ wiring = "commit-json"
  /\ last = NoResponse
  /\ call = NoCall
  /\ \E req \in EventRequests :
       inflight = [req |-> req, pc |-> "new", rest |-> req.files, streams |-> <<>>,
                   awaiting |-> <<>>, fileReceived |-> FALSE, uploading |-> "none",
                   upload |-> FilePart(<<>>, <<>>), responded |-> FALSE,
                   responses |-> 0, attempts |-> 0, status |-> 0]

NextEvents ==
  \/ EventBegin
  \/ EventFile
  \/ EventData
  \/ EventEnd
  \/ EventFileError
  \/ EventStaged
  \/ EventStageFailed
  \/ EventBusboyError
  \/ EventFinish
  \/ EventUploadDone
  \/ EventUploadFailed

SpecEvents == InitEvents /\ [][NextEvents]_vars

\* every event that can happen eventually does
SpecEventsFair == SpecEvents /\ WF_vars(NextEvents)

---------------------------------------------------------------------------
(* Properties *)

\* the role table: reader <= uploader <= admin
Satisfies(roles, required) ==
  CASE required = "reader" -> roles.isReader \/ roles.isUploader \/ roles.isAdmin
    [] required = "uploader" -> roles.isUploader \/ roles.isAdmin
    [] required = "admin" -> roles.isAdmin
    [] OTHER -> FALSE

RECURSIVE ChunkConcat(_, _)
\* chunks 0 .. n-1 of p, concatenated in index order
ChunkConcat(p, n) == IF n = 0 THEN <<>> ELSE ChunkConcat(p, n - 1) \o p[n - 1]

\* the step served a commit of n chunks for the key named by filename alone,
\* sent by a requester allowed to upload
CommitStep(n) ==
  /\ last'.route = "chunked/commit"
  /\ Satisfies(Roles(last'.req), "uploader")
  /\ last'.req.body.folder = <<>>
  /\ last'.req.body.totalChunks = JNum(n)

\* C1: once every index 0..N-1 has been staged for a key, in whatever order,
\* a commit of N chunks succeeds and the object at the key is the staged
\* chunks concatenated in ascending index order.
C1_CommitConcatenatesInIndexOrder ==
  [][\A n \in 1..MaxChunks :
       LET key == last'.req.body.filename
       IN (CommitStep(n) /\ \A i \in 0..(n - 1) : i \in DOMAIN StagedOf(pending, key))
          => /\ last'.status = 200
             /\ key \in DOMAIN blobs'
             /\ Content(blobs'[key]) = ChunkConcat(pending[key], n)]_vars

\* a commit of three chunks answered 200 left "ABC" at the key
C1_Witness ==
  /\ last.route = "chunked/commit"
  /\ last.status = 200
  /\ last.req.body.totalChunks = JNum(3)
  /\ ChunkFile \in DOMAIN blobs
  /\ Content(blobs[ChunkFile]) = <<"A", "B", "C">>

Observe(key) ==
  [exists |-> Exists(blobs, key),
   content |-> IF Exists(blobs, key) THEN Content(blobs[key]) ELSE <<>>,
   listing |-> listBlobsFlat(blobs, <<>>)]

\* C3: a stage request changes nothing a reader can observe of the key, and
\* the committed objects change only in a commit answered 200.
C3_StagingIsNotObservable ==
  [][/\ last'.route = "chunked" => Observe(ChunkFile)' = Observe(ChunkFile)
     /\ blobs' # blobs => last'.route = "chunked/commit" /\ last'.status = 200]_vars

\* every chunk of a three-chunk upload is staged and the key does not exist
C3_Witness ==
  /\ last.route = "chunked"
  /\ last.status = 200
  /\ ChunkFile \notin DOMAIN blobs
  /\ DOMAIN StagedOf(pending, ChunkFile) = {0, 1, 2}
  /\ ~Observe(ChunkFile).exists

\* the expiry time a token carries: the field before its signature
ExpiresAt(token) ==
  LET parts == Split(Base64UrlDecode(token), "|")
  IN parts[Len(parts) - 1]

\* C5: a token issued at time t carries the expiry t + 300, and a
\* verification of it at time now accepts it exactly when now <= t + 300 (so
\* that, the clock never going back, a token once expired stays rejected).
C5_TokenExpiry ==
  \A i \in issued :
    /\ ExpiresAt(i.token) = ToDecimal(i.at + 300)
    /\ (call.fn = "verifyDownloadToken" /\ call.token = i.token)
         => (call.result.ok <=> call.clock <= i.at + 300)

\* C6: the token the route has just issued for a path verifies, with no
\* clock advance, and yields exactly that path.
C6_TokenRoundTrip ==
  (last.route = "download-token" /\ last.status = 200)
    => verifyDownloadToken(last.token, now) =
         [ok |-> TRUE, path |-> normalizePath(last.req.body.path)]

\* C9: checkPermission agrees with the role table for every role set and
\* every required value (an unknown value is never satisfied), and it is
\* monotonic: admin implies uploader implies reader.
C9_CheckPermissionIsTheRoleTable ==
  call.fn = "checkPermission"
    => /\ call.result = Satisfies(call.roles, call.requiredRole)
       /\ call.requiredRole \notin {"reader", "uploader", "admin"} => ~call.result
       /\ (call.requiredRole = "admin" /\ call.result)
            => checkPermission(call.roles, "uploader")
       /\ (call.requiredRole = "uploader" /\ call.result)
            => checkPermission(call.roles, "reader")

\* a reader who is neither uploader nor admin was refused the uploader role
C9_Witness ==
  /\ call.fn = "checkPermission"
  /\ call.roles = [isReader |-> TRUE, isUploader |-> FALSE, isAdmin |-> FALSE]
  /\ call.requiredRole = "uploader"
  /\ ~call.result
  /\ checkPermission(call.roles, "reader")
  /\ ~checkPermission(call.roles, "admin")

\* the role each operation asks for
RequiredRole(route) ==
  IF route \in {"list", "exists", "download-token", "download"} THEN "reader" ELSE "uploader"

\* dt is a token issued for exactly the key and not yet expired
LinkFor(dt, key) ==
  \E i \in issued : i.token = dt /\ i.path = key /\ now <= i.at + 300

\* the key a download request asks for
DownloadKey(req) == normalizePath(Tail(req.path))

\* C4: a download by a requester without the reader role is authorized only
\* when it carries a token issued for exactly the requested key and not yet
\* expired: a token for another key, or for a folder or prefix of the key,
\* authorizes nothing.
C4_TokenBoundToItsPath ==
  (/\ last.route = "download"
   /\ ~Satisfies(Roles(last.req), "reader")
   /\ last.status # 403)
    => LinkFor(last.req.query.dt, DownloadKey(last.req))

\* a valid token issued for folder d was refused for the existing object d/a
C4_Witness ==
  /\ last.route = "download"
  /\ last.status = 403
  /\ ~Satisfies(Roles(last.req), "reader")
  /\ DownloadKey(last.req) = KeyDA
  /\ KeyDA \in DOMAIN blobs
  /\ LinkFor(last.req.query.dt, FolderD)
  /\ verifyDownloadToken(last.req.query.dt, now).ok

OtherOperations ==
  {"list", "exists", "download-token", "upload", "chunked", "chunked/commit",
   "folders/create", "move", "rename", "delete"}

\* C7: on every operation but download a request whose sender lacks the
\* role of the operation is refused, whatever token it carries, and the
\* store stays as it was.
C7_TokenServesOnlyDownload ==
  [][(/\ last'.route \in OtherOperations
      /\ ~Satisfies(Roles(last'.req), RequiredRole(last'.route)))
       => /\ last'.status = 403
          /\ blobs' = blobs
          /\ staged' = staged]_vars

\* a reader's delete of a, carrying a valid token for a, was refused and a
\* is still there
C7_Witness ==
  /\ last.route = "delete"
  /\ last.status = 403
  /\ Tail(last.req.path) = KeyA
  /\ LinkFor(last.req.query.dt, KeyA)
  /\ KeyA \in DOMAIN blobs

\* C8: a download that carries no bearer credentials but a valid token for
\* the requested, existing key is served with the object.
C8_LinkWorksWithoutCredentials ==
  (/\ last.req.method = "GET"
   /\ last.req.auth = NoAuthHeader
   /\ DownloadKey(last.req) \in DOMAIN blobs
   /\ LinkFor(last.req.query.dt, DownloadKey(last.req)))
    => /\ last.status = 200
       /\ last.content = Content(blobs[DownloadKey(last.req)])

\* the requester may not use the operation
LacksPermission(req, route) ==
  /\ ~Satisfies(Roles(req), RequiredRole(route))
  /\ route = "download" => ~LinkFor(req.query.dt, DownloadKey(req))

\* a field the operation requires is missing from the request
MissingField(req, route) ==
  CASE route = "download-token" -> req.body.path = <<>>
    [] route = "folders/create" -> req.body.folderPath = <<>>
    [] route = "move" -> req.body.sourcePath = <<>> \/ req.body.destinationPath = <<>>
    [] route = "rename" -> req.body.oldPath = <<>> \/ req.body.newName = <<>>
    [] route = "chunked" ->
         req.query.filename = <<>> \/ ~req.query.hasChunkIndex \/ req.query.totalChunks = <<>>
    [] route = "chunked/commit" -> req.body.filename = <<>> \/ req.body.totalChunks = JNone
    [] OTHER -> FALSE

\* C10: a request that fails the permission check or lacks a required field
\* is answered with an error, no store operation is issued for it, and the
\* committed objects and staged blocks stay as they were.
C10_FailuresPrecedeStoreCalls ==
  [][(/\ last'.route \in OtherOperations \cup {"download"}
      /\ \/ LacksPermission(last'.req, last'.route)
         \/ MissingField(last'.req, last'.route))
       => /\ last'.status >= 400
          /\ last'.calls = <<>>
          /\ blobs' = blobs
          /\ staged' = staged]_vars

\* an uploader's move of the existing a with no destination was answered 400
C10_Witness ==
  /\ last.route = "move"
  /\ last.status = 400
  /\ last.req.body.sourcePath = KeyA
  /\ last.req.body.destinationPath = <<>>
  /\ last.calls = <<>>
  /\ KeyA \in DOMAIN blobs

\* the marker of a folder, and the keys of a store under a folder
MarkerOf(F) == F \o <<"/", ".keep">>

KeysUnder(B, F) == {k \in DOMAIN B : Len(k) > Len(F) /\ SubSeq(k, 1, Len(F) + 1) = F \o <<"/">>}

\* the step served DELETE /folders/<F> for a requester allowed to upload
DeleteFolderStep(F) ==
  /\ last'.req.method = "DELETE"
  /\ last'.req.path = <<"/", "folders", "/">> \o F
  /\ Satisfies(Roles(last'.req), "uploader")

\* C11: deleting folder F succeeds exactly when no key under F other than its
\* marker exists; with another key under F it is answered 409 and the store is
\* unchanged; and it never deletes or changes a key other than the marker.
C11_DeleteFolderOnlyWhenEmpty ==
  [][DeleteFolderStep(FolderD)
       => LET others == KeysUnder(blobs, FolderD) \ {MarkerOf(FolderD)} IN
          /\ last'.status = 200 <=> others = {}
          /\ others # {} => (last'.status = 409 /\ blobs' = blobs)
          /\ \A k \in DOMAIN blobs \ {MarkerOf(FolderD)} :
               k \in DOMAIN blobs' /\ blobs'[k] = blobs[k]]_vars

\* the route whose own path a request asks for, "" when it asks for none
SpecificRoute(req) ==
  LET p == req.path
      under(prefix) == Len(p) > Len(prefix) /\ SubSeq(p, 1, Len(prefix)) = prefix
  IN CASE req.method = "GET" /\ under(<<"/", "exists", "/">>) -> "exists"
       [] req.method = "POST" /\ p = <<"/", "download-token">> -> "download-token"
       [] req.method = "POST" /\ p = <<"/", "chunked", "/", "commit">> -> "chunked/commit"
       [] req.method = "POST" /\ p = <<"/", "chunked">> -> "chunked"
       [] req.method = "POST" /\ p = <<"/", "folders", "/", "create">> -> "folders/create"
       [] req.method = "POST" /\ p = <<"/", "move">> -> "move"
       [] req.method = "POST" /\ p = <<"/", "rename">> -> "rename"
       [] req.method = "DELETE" /\ under(<<"/", "folders", "/">>) -> "folders/delete"
       [] OTHER -> ""

\* C12: an authenticated request whose path is that of a specific route is
\* handled by that route's handler, never by the catch-all of its method; a
\* DELETE of /folders/<path> is handled by the delete-folder handler.
C12_SpecificRouteBeforeCatchAll ==
  (last.status # 0 /\ last.route # "auth" /\ SpecificRoute(last.req) # "")
    => last.route = SpecificRoute(last.req)

\* the source and the destination key of a move or rename request
SourceKey(req, route) ==
  IF route = "move" THEN normalizePath(req.body.sourcePath)
  ELSE normalizePath(req.body.oldPath)

DestinationKey(req, route) ==
  IF route = "move" THEN normalizePath(req.body.destinationPath)
  ELSE LET folder == getFolderPath(normalizePath(req.body.oldPath))
       IN IF folder = <<>> THEN req.body.newName ELSE folder \o <<"/">> \o req.body.newName

Holds(B, key, content) == key \in DOMAIN B /\ Content(B[key]) = content

\* C13: after a move or rename of a source key that held content c, whatever
\* the answer, c is stored at the source or at the destination.
C13_MoveNeverLosesData ==
  [][\A route \in {"move", "rename"} :
       LET S == SourceKey(last'.req, route)
           D == DestinationKey(last'.req, route)
       IN (last'.route = route /\ S \in DOMAIN blobs)
            => \/ Holds(blobs', S, Content(blobs[S]))
               \/ Holds(blobs', D, Content(blobs[S]))]_vars

\* C14: a move from S to D # S answered 200 leaves at D the content S held,
\* leaves S absent and every other key as it was, having issued the copy and
\* then the delete; no move issues the delete first or after a failed copy.
C14_MoveCopiesThenDeletes ==
  [][last'.route = "move"
       => LET S == SourceKey(last'.req, "move")
              D == DestinationKey(last'.req, "move")
              copy == [op |-> "beginCopyFromURL", key |-> D]
              delete == [op |-> "delete", key |-> S]
          IN /\ last'.calls \in {<<>>, <<copy>>, <<copy, delete>>}
             /\ S \notin DOMAIN blobs => last'.calls # <<copy, delete>>
             /\ (last'.status = 200 /\ S # D)
                  => /\ last'.calls = <<copy, delete>>
                     /\ S \in DOMAIN blobs
                     /\ Holds(blobs', D, Content(blobs[S]))
                     /\ S \notin DOMAIN blobs'
                     /\ DOMAIN blobs' \ {D} = DOMAIN blobs \ {S, D}
                     /\ \A k \in DOMAIN blobs \ {S, D} : blobs'[k] = blobs[k]]_vars

\* a was moved to d/a: d/a holds its byte, a is gone, the marker of d is there
C14_Witness ==
  /\ last.route = "move"
  /\ last.status = 200
  /\ Holds(blobs, KeyDA, <<"x">>)
  /\ KeyA \notin DOMAIN blobs
  /\ MarkerOf(FolderD) \in DOMAIN blobs
  /\ last.calls = <<[op |-> "beginCopyFromURL", key |-> KeyDA], [op |-> "delete", key |-> KeyA]>>

IsMarkerKey(k) ==
  \/ k = <<".keep">>
  \/ Len(k) >= 2 /\ k[Len(k) - 1] = "/" /\ k[Len(k)] = ".keep"

\* k lies under folder P (every key lies under the root)
DescendantOf(k, P) ==
  P = <<>> \/ (Len(k) > Len(P) + 1 /\ SubSeq(k, 1, Len(P) + 1) = P \o <<"/">>)

RelativeTo(k, P) == IF P = <<>> THEN k ELSE SubSeq(k, Len(P) + 2, Len(k))

HasSeparator(p) == \E i \in 1..Len(p) : p[i] = "/"

FirstSegment(p) ==
  LET i == CHOOSE j \in 1..Len(p) : p[j] = "/" /\ \A h \in 1..(j - 1) : p[h] # "/"
  IN SubSeq(p, 1, i - 1)

\* the keys of K that belong to the folder bucket named name when listing P
BucketOf(K, P, name) ==
  {k \in K : /\ DescendantOf(k, P)
             /\ HasSeparator(RelativeTo(k, P))
             /\ FirstSegment(RelativeTo(k, P)) = name}

\* the listing R is the partition of the keys K under P the claim describes
IsPartition(R, K, P) ==
  LET fileAt(k) == {i \in 1..Len(R.files) : R.files[i].fullPath = k}
      folderAt(name) == {i \in 1..Len(R.folders) : R.folders[i].name = name}
  IN /\ \A k \in K :
          IF DescendantOf(k, P) /\ ~HasSeparator(RelativeTo(k, P)) /\ ~IsMarkerKey(k)
          THEN Cardinality(fileAt(k)) = 1
          ELSE fileAt(k) = {}
     /\ \A k \in K :
          (DescendantOf(k, P) /\ HasSeparator(RelativeTo(k, P)))
            => LET name == FirstSegment(RelativeTo(k, P))
               IN /\ Cardinality(folderAt(name)) = 1
                  /\ \A i \in folderAt(name) :
                       R.folders[i].children = Cardinality(BucketOf(K, P, name))
     /\ \A i \in 1..Len(R.files) : R.files[i].fullPath \in K
     /\ \A i \in 1..Len(R.folders) : BucketOf(K, P, R.folders[i].name) # {}

\* C15: the listing of folder P over the keys K holds exactly one file entry
\* for each key directly under P, exactly one folder entry for each first
\* segment of the keys deeper under P, each such key counted in it once,
\* nothing for the keys not under P, and no file entry for a marker.
C15_ListingPartitionsKeys ==
  call.fn = "buildHierarchy" => IsPartition(call.result, call.keys, call.folder)

\* C16: the listing of a folder shows a sub-folder exactly when some stored
\* key lies under that sub-folder, its own marker included.
C16_FolderExistsIffPrefixExists ==
  (last.route = "list" /\ last.status = 200)
    => LET P == IF last.req.query.folder = <<>> THEN <<>>
                ELSE normalizePath(last.req.query.folder)
       IN \A name \in {<<"a">>, <<"d">>} :
            LET F == IF P = <<>> THEN name ELSE P \o <<"/">> \o name
            IN (\E i \in 1..Len(last.listing.folders) : last.listing.folders[i].name = name)
                 <=> KeysUnder(blobs, F) # {}

\* C17: a create-folder request of an uploader naming a folder is answered
\* 200 and leaves the empty marker at <folder>/.keep; every other key is as it
\* was, no key but the marker is new, and when the marker was there already
\* the set of keys is unchanged.
C17_CreateFolderWritesOnlyTheMarker ==
  [][(/\ last'.route = "folders/create"
      /\ Satisfies(Roles(last'.req), "uploader")
      /\ last'.req.body.folderPath # <<>>)
       => LET F == normalizePath(last'.req.body.folderPath)
              M == MarkerOf(F)
          IN /\ last'.status = 200
             /\ Holds(blobs', M, <<>>)
             /\ DOMAIN blobs' = DOMAIN blobs \cup {M}
             /\ \A k \in DOMAIN blobs \ {M} : blobs'[k] = blobs[k]
             /\ F \in DOMAIN blobs' => F \in DOMAIN blobs
             /\ M \in DOMAIN blobs => DOMAIN blobs' = DOMAIN blobs]_vars

\* folder d was created next to the existing d/a: the marker is empty, d/a is
\* as it was, and there is no object d
C17_Witness ==
  /\ last.route = "folders/create"
  /\ last.status = 200
  /\ Holds(blobs, MarkerOf(FolderD), <<>>)
  /\ Holds(blobs, KeyDA, <<"x">>)
  /\ FolderD \notin DOMAIN blobs

\* text is the decimal form of a non-negative integer below totalChunks
IsChunkIndex(text, totalChunks) ==
  /\ text # <<>>
  /\ \A i \in 1..Len(text) : IsDigit(text[i])
  /\ ~ParseInt(totalChunks).nan
  /\ ParseInt(text).n < ParseInt(totalChunks).n

\* C18: a stage request of an uploader that lacks the file name, the chunk
\* index or the chunk count, or whose chunk index is not a non-negative
\* integer below the chunk count, is answered 400 and stages nothing.
C18_StageRejectsBadIndex ==
  [][(/\ last'.route = "chunked"
      /\ Satisfies(Roles(last'.req), "uploader")
      /\ \/ Falsy(last'.req.query.filename)
         \/ ~last'.req.query.hasChunkIndex
         \/ Falsy(last'.req.query.totalChunks)
         \/ ~IsChunkIndex(last'.req.query.chunkIndex, last'.req.query.totalChunks))
       => /\ last'.status = 400
          /\ last'.calls = <<>>
          /\ staged' = staged
          /\ blobs' = blobs]_vars

\* C19: when every concurrent chunk request has been answered and their chunk
\* indices differ, the block of each index holds the bytes sent in the request
\* of that index, whatever the order of the data events, end events and store calls.
C19_ConcurrentStagingKeepsOwnBytes ==
  (/\ \A r \in 1..MaxSenders : inflight[r].pc = "done"
   /\ \A r, q \in 1..MaxSenders :
        r # q => IndexOfText(inflight[r].index) # IndexOfText(inflight[q].index))
    => \A r \in 1..MaxSenders :
         /\ blockId(inflight[r].index) \in DOMAIN StagedOf(staged, ChunkFile)
         /\ StagedOf(staged, ChunkFile)[blockId(inflight[r].index)] = BufferConcat(Pieces(r))

\* every request was answered, for chunk indices that differ, and the blocks staged
\* are as many as the requests
C19_Witness ==
  /\ \A r \in 1..MaxSenders : inflight # <<>> /\ inflight[r].pc = "done"
  /\ \A r, q \in 1..MaxSenders :
       r # q => IndexOfText(inflight[r].index) # IndexOfText(inflight[q].index)
  /\ Cardinality(DOMAIN StagedOf(staged, ChunkFile)) = MaxSenders
  /\ StagedOf(staged, ChunkFile)[blockId(inflight[1].index)] = BufferConcat(Pieces(1))

\* C20: a direct upload that fails leaves the visible objects as they were,
\* and every visible object holds the whole payload of an upload to its key
\* that completed.
C20_UploadIsAllOrNothing ==
  [][/\ \A u \in 1..MaxUploads :
          (inflight[u].pc = "streaming" /\ inflight'[u].pc = "failed") => blobs' = blobs
     /\ \A key \in DOMAIN blobs' :
          \E u \in 1..MaxUploads : /\ inflight'[u].pc = "completed"
                             /\ inflight'[u].key = key
                             /\ Content(blobs'[key]) = BufferConcat(Pieces(u))]_vars

\* an upload failed after part of its body was staged and nothing is visible
\* at its key, while another upload completed and its whole payload is visible
C20_Witness ==
  \E u, v \in 1..MaxUploads :
    /\ inflight # <<>>
    /\ inflight[u].pc = "failed"
    /\ inflight[u].ids # <<>>
    /\ inflight[u].key \notin DOMAIN blobs
    /\ inflight[v].pc = "completed"
    /\ Holds(blobs, inflight[v].key, BufferConcat(Pieces(v)))

\* C21: a direct upload that was answered with the success response has its
\* store write completed: the upload started for the key of the answer has
\* committed its blocks.
C21_SuccessOnlyAfterStoreEffect ==
  (last.route = "upload" /\ last.status = 200)
    => \A u \in 1..MaxUploads :
         (inflight[u].pc # "idle" /\ inflight[u].key = last.calls[1].key)
           => inflight[u].pc = "completed"

\* C22: a delete of a file or of a folder asked by a requester without the
\* admin role is answered 403 and leaves the stored objects as they were.
C22_DeleteNeedsAdmin ==
  [][(last'.route \in {"delete", "folders/delete"} /\ ~Roles(last'.req).isAdmin)
       => (last'.status = 403 /\ blobs' = blobs)]_vars

\* the part of p before its last "/" (empty if none)
FolderOf(p) ==
  IF \E i \in 1..Len(p) : p[i] = "/"
  THEN SubSeq(p, 1, (CHOOSE i \in 1..Len(p) :
                       p[i] = "/" /\ \A j \in (i + 1)..Len(p) : p[j] # "/") - 1)
  ELSE <<>>

\* the part of p after its last "/" (all of p if none)
BaseNameOf(p) ==
  IF \E i \in 1..Len(p) : p[i] = "/"
  THEN SubSeq(p, (CHOOSE i \in 1..Len(p) :
                    p[i] = "/" /\ \A j \in (i + 1)..Len(p) : p[j] # "/") + 1, Len(p))
  ELSE p

\* C23: for every oldPath and every newName the rename route accepts, the
\* destination lies in the folder of the normalized oldPath and its base name
\* is newName.
C23_RenameStaysInFolder ==
  (call.fn = "paths" /\ ~Falsy(call.path) /\ ~Falsy(call.newName))
    => /\ FolderOf(call.newPath) = FolderOf(call.normalized)
       /\ BaseNameOf(call.newPath) = call.newName

\* n is p without some leading and some trailing "/" characters
IsTrimOf(n, p) ==
  \E i \in 0..Len(p) : \E j \in 0..(Len(p) - i) :
    /\ \A k \in 1..i : p[k] = "/"
    /\ \A k \in (Len(p) - j + 1)..Len(p) : p[k] = "/"
    /\ n = SubSeq(p, i + 1, Len(p) - j)

\* C25: normalizePath(p) neither starts nor ends with "/", is p without its
\* leading and trailing "/" characters only, and is a fixed point of
\* normalizePath; getFolderPath and getBaseName are the parts of it before
\* and after its last "/", which joined by "/" give it back.
C25_PathNormalizerLaws ==
  call.fn = "paths"
    => LET n == call.normalized
       IN /\ n # <<>> => (n[1] # "/" /\ n[Len(n)] # "/")
          /\ IsTrimOf(n, call.path)
          /\ normalizePath(n) = n
          /\ call.folder = FolderOf(n)
          /\ call.base = BaseNameOf(n)
          /\ (\E i \in 1..Len(n) : n[i] = "/")
               => call.folder \o <<"/">> \o call.base = n

\* interior characters are kept: "a//." has the folder "a/" and the base name "."
C25_Witness ==
  /\ call.fn = "paths"
  /\ call.path = <<"a", "/", "/", ".">>
  /\ call.normalized = call.path
  /\ call.folder = <<"a", "/">>
  /\ call.base = <<".">>

\* C28: the block id under which the stage route stages the chunk index text
\* that denotes i is the id at position i of the commit route's block list;
\* it differs from the ids of the other positions and is as wide as they are.
C28_StageAndCommitSameBlockId ==
  (call.fn = "blockId" /\ ParseInt(call.chunkIndex).n < call.totalChunks)
    => LET i == ParseInt(call.chunkIndex).n
       IN /\ call.id = call.ids[i + 1]
          /\ \A j \in 1..Len(call.ids) : j # i + 1 => call.ids[j] # call.id
          /\ \A j \in 1..Len(call.ids) : Len(call.ids[j].b64) = Len(call.id.b64)

\* the key of the object a download, delete, move or rename request reads
ObjectOf(req, route) ==
  IF route \in {"move", "rename"} THEN SourceKey(req, route)
  ELSE IF route = "download" THEN DownloadKey(req)
  ELSE Tail(req.path)

\* C24: a download, delete, move or rename that reaches the store for an
\* object that does not exist is answered 404 and leaves the store as it was.
C24_MissingSourceIsNotFound ==
  [][\A route \in {"download", "delete", "move", "rename"} :
       (/\ last'.route = route
        /\ last'.calls # <<>>
        /\ ObjectOf(last'.req, route) \notin DOMAIN blobs)
         => (last'.status = 404 /\ blobs' = blobs /\ staged' = staged)]_vars

\* C26: every key a handler passes to the store has neither a leading nor a
\* trailing "/".
C26_StoreKeysAreNormalized ==
  \A i \in 1..Len(last.calls) :
    LET key == last.calls[i].key
    IN key # <<>> => (key[1] # "/" /\ key[Len(key)] # "/")

\* C27: once the copy of a move to another key has been made, the moved
\* object is never seen at both the source and the destination key, nor at
\* neither, whether the move is still running, has failed or is done.
C27_MoveIsAtomic ==
  \A m \in 1..MaxMoves :
    (inflight[m].copied /\ inflight[m].src # inflight[m].dst
       /\ \A q \in 1..MaxMoves : q # m => inflight[q].pc = "idle")
      => (inflight[m].src \in DOMAIN blobs) # (inflight[m].dst \in DOMAIN blobs)

\* the chunks are those of one upload: all of the file, or all of the other
OneSession(chunks, n) ==
  \/ \A i \in 0..(n - 1) : chunks[i] = <<Letters[i + 1]>>
  \/ \A i \in 0..(n - 1) : chunks[i] = <<OtherByte>>

\* C29: a commit of n chunks answered 200 found every index below n staged
\* since the key was last committed, by one and the same upload.
C29_CommitTakesOneSession ==
  [][\A n \in 1..MaxChunks :
       LET key == last'.req.body.filename
       IN (CommitStep(n) /\ last'.status = 200)
            => /\ \A i \in 0..(n - 1) : i \in DOMAIN StagedOf(pending, key)
               /\ OneSession(pending[key], n)]_vars

\* C30: a stage request answered 200 leaves its bytes in the block of its
\* index and every other block and object as it was, and changes nothing when
\* the block held these bytes already; a commit answered 200 stores, for each
\* index staged since the last commit, the bytes staged last.
C30_StageIsIdempotentLastWriterWins ==
  [][/\ (last'.route = "chunked" /\ last'.status = 200)
          => LET key == last'.req.query.filename
                 id == blockId(last'.req.query.chunkIndex)
                 data == last'.req.files[Len(last'.req.files)].data
                 before == StagedOf(staged, key)
             IN /\ blobs' = blobs
                /\ DOMAIN staged'[key] = DOMAIN before \cup {id}
                /\ staged'[key][id] = data
                /\ \A other \in DOMAIN before \ {id} : staged'[key][other] = before[other]
                /\ \A k \in DOMAIN staged \ {key} : staged'[k] = staged[k]
                /\ (id \in DOMAIN before /\ before[id] = data) => staged' = staged
     /\ \A n \in 1..MaxChunks :
          LET key == last'.req.body.filename
          IN (CommitStep(n) /\ last'.status = 200)
               => \A i \in DOMAIN StagedOf(pending, key) \cap 0..(n - 1) :
                    blobs'[key][i + 1].data = pending[key][i]]_vars

\* chunk 1 was staged and committed as "B" and has now been staged again, under
\* the same block id, with the other byte
C30_Witness ==
  /\ last.route = "chunked"
  /\ last.status = 200
  /\ last.req.query.chunkIndex = <<"1">>
  /\ Holds(blobs, ChunkFile, <<"A", "B">>)
  /\ StagedOf(staged, ChunkFile) = [id \in {blockId(<<"1">>)} |-> <<OtherByte>>]

\* totalChunks is missing, zero, negative or not a number
MalformedCount(v) == JFalsy(v) \/ JParseInt(v).nan \/ JParseInt(v).n <= 0

\* C31: a commit request of an uploader whose totalChunks is missing, zero,
\* negative or not a number is answered 400, calls the store for nothing and
\* leaves every object as it was.
C31_CommitRejectsMalformedCount ==
  [][(/\ last'.route = "chunked/commit"
      /\ Satisfies(Roles(last'.req), "uploader")
      /\ MalformedCount(last'.req.body.totalChunks))
       => /\ last'.status = 400
          /\ last'.calls = <<>>
          /\ blobs' = blobs]_vars

\* C32: verifyDownloadToken gives the one invalid result for every token it
\* does not accept, and a download by a requester without the reader role
\* whose token is not one issued for the requested key and still valid -- no
\* token, a changed one, an expired one, one for another key -- is answered
\* with one and the same 403 response, the store untouched.
C32_TokenFailuresLookAlike ==
  [][(/\ last'.route = "download"
      /\ ~Satisfies(Roles(last'.req), "reader")
      /\ ~LinkFor(last'.req.query.dt, DownloadKey(last'.req)))
       => /\ LET verified == verifyDownloadToken(last'.req.query.dt, now)
             IN ~verified.ok => verified = Invalid
          /\ last' = [NoResponse EXCEPT !.req = last'.req, !.route = "download",
                                        !.status = 403]
          /\ blobs' = blobs
          /\ staged' = staged]_vars

\* a download with a token for another key that still verifies was refused
\* with 403, the object being stored
C32_Witness ==
  /\ last.route = "download"
  /\ last.status = 403
  /\ last.calls = <<>>
  /\ DownloadKey(last.req) = KeyDA
  /\ KeyDA \in DOMAIN blobs
  /\ verifyDownloadToken(last.req.query.dt, now).ok
  /\ verifyDownloadToken(last.req.query.dt, now).path # KeyDA

\* the path, expiry and signature fields of a token
FieldsOf(token) ==
  LET parts == Split(Base64UrlDecode(token), "|")
  IN [i \in 1..3 |-> IF i <= Len(parts) THEN parts[i] ELSE <<>>]

\* C33: a token that verifies has the path, the expiry and the signature of
\* a token that was issued: a token that differs from every issued one in
\* one of these fields is refused.
C33_TokensAreUnforgeable ==
  (call.fn = "verifyDownloadToken" /\ call.result.ok)
    => \E i \in issued : FieldsOf(call.token) = FieldsOf(i.token)

\* a token issued for a, with its expiry put off, was refused while the token
\* itself had expired
C33_Witness ==
  /\ call.fn = "verifyDownloadToken"
  /\ ~call.result.ok
  /\ \E i \in issued :
       /\ i.path = <<"a">>
       /\ FieldsOf(call.token)[1] = <<"a">>
       /\ FieldsOf(call.token)[2] = <<"9">> \o FieldsOf(i.token)[2]
       /\ FieldsOf(call.token)[3] = FieldsOf(i.token)[3]
       /\ ~verifyDownloadToken(i.token, now).ok

\* the keys other than markers counted in the folder entry name of the listing of P
ContributorsOf(K, P, name) == {k \in BucketOf(K, P, name) : ~IsMarkerKey(k)}

\* the place of the first contributor of name in the flat listing L
FirstSeen(L, K, P, name) ==
  CHOOSE i \in 1..Len(L) :
    /\ L[i].name \in ContributorsOf(K, P, name)
    /\ \A j \in 1..(i - 1) : L[j].name \notin ContributorsOf(K, P, name)

\* C34: in a listing the folder entries have pairwise distinct, non-empty
\* names, stand in the order in which their first key is met, have the path
\* P/name (name at the root), and count the keys under them other than
\* markers, which are at least one.
C34_FolderEntriesAreWellFormed ==
  call.fn = "buildHierarchy"
    => LET K == call.keys
           P == call.folder
           F == call.result.folders
           L == listBlobsFlat(ContainerOf(K), <<>>)
       IN /\ \A i, j \in 1..Len(F) : i # j => F[i].name # F[j].name
          /\ \A i \in 1..Len(F) :
               /\ F[i].name # <<>>
               /\ F[i].path = (IF P = <<>> THEN F[i].name ELSE P \o <<"/">> \o F[i].name)
               /\ F[i].children = Cardinality(ContributorsOf(K, P, F[i].name))
               /\ F[i].children >= 1
          /\ \A i, j \in 1..Len(F) :
               i < j => FirstSeen(L, K, P, F[i].name) < FirstSeen(L, K, P, F[j].name)

\* C35: under every interleaving of requests, serving DELETE /folders/<F>
\* removes at most the key F/.keep: every other object stays retrievable, and
\* a folder that still holds an object is still listed afterwards.
C35_DeleteFolderRemovesOnlyMarker ==
  [][\A F \in {KeyA, FolderD} :
       DeleteFolderStep(F)
         => /\ DOMAIN blobs \ DOMAIN blobs' \subseteq {MarkerOf(F)}
            /\ \A k \in DOMAIN blobs \ {MarkerOf(F)} : blobs'[k] = blobs[k]]_vars

\* C36: a stage-chunk or direct-upload request is sent at most one response,
\* whatever the order of the parser's file, data, end, error and finish
\* events, with several file parts and with a store failure after the end
\* of a stream.
C36_AtMostOneResponse == inflight.responses <= 1

\* a stage request with two file parts: both parts were staged or failed
\* and the body was read to its end, and one response was sent
C36_Witness ==
  /\ IsStage(inflight)
  /\ Len(inflight.req.files) = 2
  /\ inflight.pc = "finished"
  /\ inflight.attempts >= 2
  /\ inflight.status = 200
  /\ inflight.responses = 1

\* C37: a stage-chunk request that passed the permission and parameter
\* checks is sent a response once its body has been fully received, also when
\* the body holds no file part.
C37_StageRequestIsAnswered ==
  (IsStage(inflight) /\ inflight.pc = "finished") ~> (inflight.responses = 1)

\* C38: a request reaches a route handler only with a bearer token that is
\* authentic (issued and signed by the identity provider), whose audience is
\* the API client id and whose issuer is the configured tenant; a token
\* fabricated by the caller is rejected and obtains no role.
C38_RolesOnlyFromVerifiedTokens ==
  last.route \notin {"none", "auth"}
    => /\ last.req.auth.scheme = "Bearer"
       /\ last.req.auth.authentic
       /\ last.req.auth.aud = "api"
       /\ last.req.auth.iss \in {"v2", "sts"}

====
